---------------------------- MODULE Spec2Model ----------------------------
(***************************************************************************)
(* Model of the survey bot of bukhantcev/m12 (src/main.py, src/db.py,      *)
(* src/ydisk.py): the aiogram dialogue handlers, the per-user FSM storage, *)
(* and the sqlite tables drafts / submissions / users / docs.              *)
(*                                                                         *)
(* Texts.  TLC cannot take a string apart, so every text of the program is *)
(* a sequence of tokens (strings).  Typed input is spelled character by    *)
(* character (<<"0","1",".","0","1",...>>) where the code inspects it;     *)
(* fixed labels are one token.  Cyrillic literals of the source are        *)
(* transliterated (TLA+ strings are ASCII): "Net" is the source's word    *)
(* for no, "Da" the word for yes, "-" the em-dash placeholder.             *)
(***************************************************************************)
EXTENDS Integers, Sequences, FiniteSets, TLC

VARIABLES
    fsm_state,      \* FSMContext state tag per user ("None" = no state)
    fsm_data,       \* FSMContext data per user (keys draft, edit_sub_id, edit_field)
    db_drafts,      \* table drafts: rows [user_id, fsm_state, draft_json]
    db_submissions, \* table submissions: rows keyed by autoincrement id
    db_seq,         \* sqlite_sequence of submissions (AUTOINCREMENT)
    db_users,       \* table users: rows [user_id, last_submission_id, last_folder_path]
    db_docs,        \* table docs: rows [id, user_id, submission_id, file_name, ydisk_path]
    sent,           \* per user: the messages the last handler sent, in order
    asked,          \* history: per user, the question prompt the dialogue flow last showed
    at_pause,       \* history: per user, asked, the state tag and the draft when the
                    \* stored draft was written (NoPause when there is none)
    inflight        \* per user: the commit handlers suspended at the folder creation,
                    \* each with the answers it read (concurrent dispatch only)

vars == <<fsm_state, fsm_data, db_drafts, db_submissions, db_seq,
          db_users, db_docs, sent, asked, at_pause, inflight>>

-----------------------------------------------------------------------------
(* Bounds of the exploration *)

MaxSubs == 1        \* rows ever inserted into submissions
MaxCount == 2       \* largest connection count a user types
NPowerOpts == 2     \* power-type options a user presses: indices 1..NPowerOpts
NWhereOpts == 2     \* placement options a user presses: indices 0..NWhereOpts-1
MaxEdits == 1       \* updates of one submission row (guard of Next)
MaxDocs == 1        \* rows of docs before an upload (guard of Next)

-----------------------------------------------------------------------------
(* Text helpers (Python str methods on token sequences) *)

NL == "\n"
NONE == <<"<None>">>      \* Python None where a text is expected
DASH == <<"-">>           \* the em-dash placeholder
NET == <<"Net">>          \* no
DA == <<"Da">>            \* yes
SFX_OTHER == <<"Drugoe">>     \* the sfx option "other"
OPERATOR_M12 == <<"Operator", " ", "M12">>   \* SURVEY_OPTIONS["operator"][1]
OWN_CONSOLE == <<"Privezem svoy pult">>      \* SURVEY_OPTIONS["console_help"][2]
BIG_HALL == <<"Bolshoy zal">>                \* SURVEY_OPTIONS["scene"][0]

Digit == {"0", "1", "2", "3", "4", "5", "6", "7", "8", "9"}

DigitVal(c) ==
    CASE c = "0" -> 0 [] c = "1" -> 1 [] c = "2" -> 2 [] c = "3" -> 3
      [] c = "4" -> 4 [] c = "5" -> 5 [] c = "6" -> 6 [] c = "7" -> 7
      [] c = "8" -> 8 [] c = "9" -> 9

DigitChr(n) ==
    CASE n = 0 -> "0" [] n = 1 -> "1" [] n = 2 -> "2" [] n = 3 -> "3"
      [] n = 4 -> "4" [] n = 5 -> "5" [] n = 6 -> "6" [] n = 7 -> "7"
      [] n = 8 -> "8" [] n = 9 -> "9"

IsSpace(c) == c \in {" ", NL}

RECURSIVE LStrip(_)
LStrip(s) == IF s # <<>> /\ IsSpace(Head(s)) THEN LStrip(Tail(s)) ELSE s

RECURSIVE RStrip(_)
RStrip(s) ==
    IF s # <<>> /\ IsSpace(s[Len(s)]) THEN RStrip(SubSeq(s, 1, Len(s) - 1)) ELSE s

\* str.strip()
Strip(s) == RStrip(LStrip(s))

\* (x or "") for a message text
OrEmpty(s) == IF s = NONE THEN <<>> ELSE s

\* U+00B2: str.isdigit() accepts it, int() rejects it
SuperDigit == {"sup2"}

\* str.isdigit()
IsDigitStr(s) == s # <<>> /\ \A i \in 1..Len(s) : s[i] \in Digit \cup SuperDigit

\* int(s) of a digit string returns: every character is a decimal
IsDecimalStr(s) == \A i \in 1..Len(s) : s[i] \in Digit

RECURSIVE ParseInt(_)
ParseInt(s) ==
    IF s = <<>> THEN 0 ELSE ParseInt(SubSeq(s, 1, Len(s) - 1)) * 10 + DigitVal(s[Len(s)])

RECURSIVE IntStr(_)
\* str(n) for n >= 0
IntStr(n) == IF n < 10 THEN <<DigitChr(n)>> ELSE IntStr(n \div 10) \o <<DigitChr(n % 10)>>

RECURSIVE Join(_, _)
\* sep.join(xs) for a list of texts
Join(sep, xs) ==
    IF xs = <<>> THEN <<>>
    ELSE IF Len(xs) = 1 THEN xs[1]
    ELSE xs[1] \o sep \o Join(sep, Tail(xs))

RECURSIVE Concat(_)
Concat(xs) == IF xs = <<>> THEN <<>> ELSE Head(xs) \o Concat(Tail(xs))

\* re.sub(r"\s+", " ", s)
RECURSIVE CollapseSpaces(_)
CollapseSpaces(s) ==
    IF s = <<>> THEN <<>>
    ELSE IF IsSpace(Head(s))
         THEN <<" ">> \o CollapseSpaces(LStrip(Tail(s)))
         ELSE <<Head(s)>> \o CollapseSpaces(Tail(s))

Range(f) == {f[x] : x \in DOMAIN f}
InList(x, xs) == \E i \in 1..Len(xs) : xs[i] = x

\* list.remove(x): drops the first occurrence
RECURSIVE ListRemove(_, _)
ListRemove(xs, x) ==
    IF xs = <<>> THEN <<>>
    ELSE IF Head(xs) = x THEN Tail(xs)
    ELSE <<Head(xs)>> \o ListRemove(Tail(xs), x)

\* dict helpers: a dict is a function whose domain is its key set
Has(d, k) == k \in DOMAIN d
Upd(d, patch) == patch @@ d                \* dict.update(patch)
SetDefault(d, k, v) == IF Has(d, k) THEN d ELSE d @@ (k :> v)
EmptyDict == <<>>

-----------------------------------------------------------------------------
(* FieldValidators: src/main.py 73-106 *)

\* DATE_RE = ^\d{2}\.\d{2}\.\d{4}$
DATE_RE(s) ==
    /\ Len(s) = 10
    /\ \A i \in {1, 2, 4, 5, 7, 8, 9, 10} : s[i] \in Digit
    /\ s[3] = "." /\ s[6] = "."

IsLeap(y) == (y % 4 = 0 /\ y % 100 # 0) \/ y % 400 = 0

DaysInMonth(m, y) ==
    IF m = 2 THEN (IF IsLeap(y) THEN 29 ELSE 28)
    ELSE IF m \in {4, 6, 9, 11} THEN 30 ELSE 31

\* datetime.strptime(s, "%d.%m.%Y") does not raise ValueError
StrptimeOk(s) ==
    LET d == ParseInt(SubSeq(s, 1, 2))
        m == ParseInt(SubSeq(s, 4, 5))
        y == ParseInt(SubSeq(s, 7, 10))
    IN  /\ y >= 1
        /\ m \in 1..12
        /\ d >= 1 /\ d <= DaysInMonth(m, y)

\* a date step that accepts every text of the shape DD.MM.YYYY
norm_date_shape(text) ==
    IF DATE_RE(Strip(OrEmpty(text))) THEN Strip(OrEmpty(text)) ELSE NONE

norm_date(text) ==
    LET s == Strip(OrEmpty(text))
    IN  IF ~DATE_RE(s) THEN NONE
        ELSE IF StrptimeOk(s) THEN s ELSE NONE

int_pos(text) ==
    LET s == Strip(OrEmpty(text))
    IN  IF ~IsDigitStr(s) THEN 0          \* 0 stands for None: no accepted value is 0
        ELSE IF ~IsDecimalStr(s) THEN -1  \* int(s) raises ValueError, nothing catches it
        ELSE ParseInt(s)                  \* n if n > 0 else None

PhoneChar == Digit \cup {"+", "-", "(", ")", " "}

\* PHONE_RE = ^[\d\+\-\(\) ]{6,}$
PHONE_RE(s) == Len(s) >= 6 /\ \A i \in 1..Len(s) : s[i] \in PhoneChar

norm_phone(text) ==
    LET s == Strip(OrEmpty(text))
    IN  IF s = <<>> THEN NONE
        ELSE IF ~PHONE_RE(s) THEN NONE
        ELSE CollapseSpaces(s)

-----------------------------------------------------------------------------
(* Folder naming: src/ydisk.py 10-14, src/main.py 42-43, 109-114 *)

MaxNameLen == 120
YANDEX_ROOT == <<"Festival">>
YANDEX_INBOX == <<"INBOX">>
NO_NAME == <<"Bez_nazvaniya">>
PathHostile == {"\\", "/", ":", "*", "?", "\"", "<", ">", "|"}

sanitize_name(text) ==
    LET s0 == Strip(OrEmpty(text))
        s1 == [i \in 1..Len(s0) |-> IF s0[i] \in PathHostile THEN "_" ELSE s0[i]]
        s2 == CollapseSpaces(s1)
        s3 == IF s2 # <<>>
              THEN SubSeq(s2, 1, IF Len(s2) < MaxNameLen THEN Len(s2) ELSE MaxNameLen)
              ELSE NO_NAME
    IN  Strip(s3)

folder_for(event_date, org, event_title) ==
    YANDEX_ROOT \o <<"/">> \o sanitize_name(event_date) \o <<"-">>
        \o sanitize_name(org) \o <<"-">> \o sanitize_name(event_title)

inbox_for(uid) == YANDEX_ROOT \o <<"/">> \o YANDEX_INBOX \o <<"/">> \o IntStr(uid)

-----------------------------------------------------------------------------
(* Options and keyboards: src/main.py 117-205 *)

SURVEY_OPTIONS ==
    [scene |-> << BIG_HALL, <<"Malyi zal">> >>,
     night_mount |-> << DA, NET >>,
     mount_who |-> << <<"Sami">>, <<"Sotrudniki M12">>, <<"Sovmestno">> >>,
     extra_equipment |-> << NET, <<"Privezem svoe">>, <<"Vozmem v prokate">> >>,
     power_type |-> << NET, <<"63A - 5 Pin">>, <<"32A - 5 Pin">>, <<"32A - 3 Pin">> >>,
     power_where |-> << <<"Levaya storona">>, <<"Arier">>, <<"Pravaya storona">>,
                        <<"Avanscena">> >>,
     dimmer_needed |-> << DA, NET >>,
     sfx |-> << NET, <<"Dym/tuman">>, <<"Mylnye puzyri">>, <<"Sneg">>,
                <<"Pirotehnika">>, SFX_OTHER >>,
     operator |-> << <<"Sami">>, OPERATOR_M12 >>,
     console_help |-> << DA, NET, OWN_CONSOLE >>,
     confirm |-> << <<"[ok]", " ", "Sohranit">>, <<"[again]", " ", "Zanovo">> >>]

Button(t, d) == [t |-> t, d |-> d]

\* the rows of n buttons laid out cols per row
RECURSIVE Rows(_, _)
Rows(btns, cols) ==
    IF btns = <<>> THEN <<>>
    ELSE IF Len(btns) <= cols THEN <<btns>>
    ELSE <<SubSeq(btns, 1, cols)>> \o Rows(SubSeq(btns, cols + 1, Len(btns)), cols)

kb_inline(field, cols) ==
    LET opts == SURVEY_OPTIONS[field]
        btns == [i \in 1..Len(opts) |->
                    Button(opts[i], <<"ans", ":", field, ":">> \o IntStr(i - 1))]
    IN  [kind |-> "inline", rows |-> Rows(btns, cols)]

\* the option rows of a multi-select keyboard: every option but "Net", marked
RECURSIVE MultiRows(_, _, _, _)
MultiRows(opts, i, selected, prefix) ==
    IF i > Len(opts) THEN <<>>
    ELSE (IF opts[i] = NET THEN <<>>
          ELSE << <<Button((IF InList(opts[i], selected) THEN <<"[x] ">> ELSE <<"[ ] ">>)
                              \o opts[i],
                           <<prefix, ":", "opt", ":">> \o IntStr(i - 1))>> >>)
         \o MultiRows(opts, i + 1, selected, prefix)

kb_multi(field, prefix, selected, none_selected) ==
    LET text_none == IF none_selected /\ selected = <<>> THEN <<"[no] ">> \o NET ELSE NET
    IN  [kind |-> "inline",
         rows |-> << <<Button(text_none, <<prefix, ":", "none">>)>> >>
                  \o MultiRows(SURVEY_OPTIONS[field], 1, selected, prefix)
                  \o << <<Button(<<"Dalee">>, <<prefix, ":", "done">>)>> >>]

kb_power_types_multi(selected, none_selected) ==
    kb_multi("power_type", "pt", selected, none_selected)

kb_sfx_multi(selected, none_selected) == kb_multi("sfx", "sx", selected, none_selected)

BTN_PAUSE == <<"Prervat i dodelat pozzhe">>
BTN_SURVEY == <<"Proyti opros">>
BTN_RESUME == <<"Prodolzhit opros">>
BTN_NEW == <<"Nachat zanovo">>
BTN_BACK == <<"Nazad">>
BTN_EDIT == <<"Izmenit otvety">>
BTN_MY == <<"Moi otvety">>
BTN_DOCS == <<"Dokumenty">>
BTN_ADMIN == <<"Admin">>

ReplyKb(rows) == [kind |-> "reply", rows |-> rows]
RB(t) == Button(t, <<>>)

kb_survey_reply == ReplyKb(<< <<RB(BTN_PAUSE)>> >>)

ADMIN_IDS == {2}
is_admin(uid) == uid \in ADMIN_IDS

\* kb_menu(uid); has_draft is db.get_draft(uid) at the moment of the call
kb_menu(uid, has_draft) ==
    ReplyKb((IF is_admin(uid) THEN << <<RB(BTN_ADMIN)>> >> ELSE <<>>)
            \o << <<RB(BTN_SURVEY)>> >>
            \o (IF has_draft THEN << <<RB(BTN_RESUME)>> >> ELSE <<>>)
            \o << <<RB(BTN_DOCS), RB(BTN_MY)>>, <<RB(BTN_EDIT)>> >>)

kb_resume_or_new == ReplyKb(<< <<RB(BTN_RESUME), RB(BTN_NEW)>>, <<RB(BTN_BACK)>> >>)

NoKb == [kind |-> "none", rows |-> <<>>]

Msg(text, kb) == [text |-> text, kb |-> kb]

-----------------------------------------------------------------------------
(* JSON: json.dumps / json.loads as the handlers use them *)

QUOTE == "\""

\* json.dumps(xs, ensure_ascii=False) for a list of texts
json_dumps_list(xs) ==
    <<"[">> \o Join(<<", ">>, [i \in 1..Len(xs) |-> <<QUOTE>> \o xs[i] \o <<QUOTE>>])
            \o <<"]">>

FirstIndex(s, c) == CHOOSE i \in 1..Len(s) : s[i] = c /\ \A j \in 1..(i - 1) : s[j] # c

RECURSIVE JsonItems(_)
JsonItems(s) ==
    IF s = <<>> \/ Head(s) = "]" THEN <<>>
    ELSE IF Head(s) = QUOTE
         THEN LET rest == Tail(s)
                  n == FirstIndex(rest, QUOTE)
              IN  <<SubSeq(rest, 1, n - 1)>> \o JsonItems(SubSeq(rest, n + 1, Len(rest)))
         ELSE JsonItems(Tail(s))

\* json.loads(text or "[]") for the text of a list of strings
json_loads_list(text) ==
    IF text = <<>> \/ text = NONE THEN <<>> ELSE JsonItems(Tail(text))

\* the member order and the JSON type of every key a draft can hold
DraftKeys ==
    << "power_types", "power_items", "power_i", "power_none", "sfx_list", "sfx_other",
       "sfx_none", "org", "role", "name", "event_date", "event_title", "scene",
       "night_mount", "mount_who", "techs_count", "extra_equipment", "plugs",
       "dimmer_needed", "dimmer_text", "operator", "console_help", "console_model",
       "phone", "power_type", "sfx_json" >>

JsonType(k) ==
    CASE k \in {"power_types", "sfx_list"} -> "array"
      [] k = "power_items" -> "array-of-object"
      [] k = "power_i" -> "number"
      [] k \in {"power_none", "sfx_none"} -> "bool"
      [] OTHER -> "string"

\* a dump that loses the item cursor
json_dumps_no_cursor(d) ==
    LET present == SelectSeq(DraftKeys, LAMBDA k : k \in DOMAIN d /\ k # "power_i")
    IN  [i \in 1..Len(present) |-> <<present[i], JsonType(present[i]), d[present[i]]>>]

\* json.dumps(d, ensure_ascii=False) for a draft: its members, one after the other
json_dumps(d) ==
    LET present == SelectSeq(DraftKeys, LAMBDA k : k \in DOMAIN d)
    IN  [i \in 1..Len(present) |-> <<present[i], JsonType(present[i]), d[present[i]]>>]

\* json.loads(text) for the text of a draft
json_loads(j) ==
    [k \in {j[i][1] : i \in 1..Len(j)} |->
        LET i == CHOOSE n \in 1..Len(j) : j[n][1] = k /\ \A m \in (n + 1)..Len(j) : j[m][1] # k
        IN  j[i][3]]

-----------------------------------------------------------------------------
(* AnswerModel: answers_text, src/main.py 208-304 *)

ListKeys == {"sfx_list", "power_where_list", "power_types", "power_items"}

\* a.get(k) or "" for a text key
GetText(a, k) == IF Has(a, k) THEN a[k] ELSE <<>>
\* a.get(k) or [] for a list key
GetList(a, k) == IF Has(a, k) THEN a[k] ELSE <<>>
\* str(a.get(k) or dflt).strip()
GetOr(a, k, dflt) == Strip(IF GetText(a, k) = <<>> THEN dflt ELSE GetText(a, k))

fmt_list(xs) ==
    IF xs = <<>> THEN DASH
    ELSE <<NL>> \o Join(<<NL>>, [i \in 1..Len(xs) |-> <<"  - ">> \o xs[i]])

g(a, k) ==
    IF ~Has(a, k) \/ a[k] = <<>> THEN DASH
    ELSE IF k \in ListKeys THEN fmt_list(a[k])
    ELSE a[k]

\* "type: location" of a placement
WhereEntry(t, w) == t \o <<": ">> \o w

\* the flattened placement list of power items, item by item
RECURSIVE FlatWhere(_)
FlatWhere(items) ==
    IF items = <<>> THEN <<>>
    ELSE LET it == Head(items)
         IN  (IF it.type # <<>>
              THEN [j \in 1..Len(it.where) |-> WhereEntry(it.type, it.where[j])]
              ELSE <<>>)
             \o FlatWhere(Tail(items))

ItemTypes(items) ==
    LET named == SelectSeq(items, LAMBDA it : it.type # <<>>)
    IN  [i \in 1..Len(named) |-> named[i].type]

\* lines 222-240: the placement list and the type summary the render works with
render_power_where(a) ==
    IF GetList(a, "power_where_list") = <<>> /\ GetList(a, "power_items") # <<>>
    THEN FlatWhere(GetList(a, "power_items"))
    ELSE GetList(a, "power_where_list")

render_power_type(a) ==
    LET p0 == Strip(GetText(a, "power_type"))
        p1 == IF p0 = <<>> /\ GetList(a, "power_items") # <<>>
              THEN Join(<<", ">>, ItemTypes(GetList(a, "power_items")))
              ELSE p0
    IN  IF p1 = <<>> /\ GetList(a, "power_types") # <<>>
        THEN Join(<<", ">>, SelectSeq(GetList(a, "power_types"), LAMBDA x : x # <<>>))
        ELSE p1

\* lines 242-248
\* the answer without the rule for the literal type "no"
power_needed_no_literal(a) ==
    LET pw == render_power_where(a)
        pt == render_power_type(a)
        n1 == IF pw = <<>> /\ pt \in {<<>>, DASH, NET, <<"0">>} THEN NET ELSE DA
    IN  IF n1 = NET /\ (GetList(a, "power_types") # <<>> \/ GetList(a, "power_items") # <<>>)
        THEN DA
        ELSE n1

\* the answer without the rule for the selected types
power_needed_no_pending(a) ==
    LET pw == render_power_where(a)
        pt == render_power_type(a)
        n1 == IF pw = <<>> /\ pt \in {<<>>, DASH, NET, <<"0">>} THEN NET ELSE DA
    IN  IF Strip(pt) = NET THEN NET ELSE n1

power_needed(a) ==
    LET pw == render_power_where(a)
        pt == render_power_type(a)
        n1 == IF pw = <<>> /\ pt \in {<<>>, DASH, NET, <<"0">>} THEN NET ELSE DA
        n2 == IF Strip(pt) = NET THEN NET ELSE n1
    IN  IF n2 = NET /\ (GetList(a, "power_types") # <<>> \/ GetList(a, "power_items") # <<>>)
        THEN DA
        ELSE n2

\* lines 252-262: the special-effects list the render shows
render_sfx_list(a) ==
    LET l0 == IF Has(a, "sfx_list") THEN a["sfx_list"]
              ELSE json_loads_list(GetText(a, "sfx_json"))
        other == Strip(GetText(a, "sfx_other"))
    IN  IF other # <<>> /\ InList(SFX_OTHER, l0)
        THEN [i \in 1..Len(l0) |->
                IF l0[i] # SFX_OTHER THEN l0[i] ELSE SFX_OTHER \o <<": ">> \o other]
        ELSE l0

\* line 263: a["sfx_list"] = sfx_list; the dict the caller passed, after the call
answers_text_arg(a) == Upd(a, [sfx_list |-> render_sfx_list(a)])

\* the stored console model, whatever the operator and the console help are
render_console_model_stored(a) == GetOr(a, "console_model", DASH)

\* lines 265-275
render_console_model(a) ==
    IF GetOr(a, "operator", DASH) = OPERATOR_M12 THEN DASH
    ELSE IF GetOr(a, "console_help", DASH) = OWN_CONSOLE
         THEN GetOr(a, "console_model", DASH)
         ELSE IF Strip(GetText(a, "scene")) = BIG_HALL
              THEN <<"GrandMa2 Light">> ELSE <<"Chamsys MQ500">>

\* lines 1517-1526 (and 1683-1689): the console model of the generated
\* document, compared without trimming
docx_console_model(sub) ==
    IF GetText(sub, "operator") # OPERATOR_M12
    THEN IF GetText(sub, "console_help") = OWN_CONSOLE
         THEN IF GetText(sub, "console_model") = <<>> THEN DASH
              ELSE GetText(sub, "console_model")
         ELSE IF GetText(sub, "scene") = BIG_HALL
              THEN <<"GrandMa2 Light">> ELSE <<"Chamsys MQ500">>
    ELSE DASH

\* the lines of the summary, as (label, value) pairs: lines 277-303
answers_lines(a) ==
    LET a2 == answers_text_arg(a)
        pw == render_power_where(a)
        dim == GetOr(a, "dimmer_needed", DASH)
    IN  << <<"1) org", g(a2, "org")>>,
           <<"2) role", g(a2, "role")>>,
           <<"3) name", g(a2, "name")>>,
           <<"4) phone", g(a2, "phone")>>,
           <<"5) date", g(a2, "event_date")>>,
           <<"6) title", g(a2, "event_title")>>,
           <<"7) scene", g(a2, "scene")>>,
           <<"8) night_mount", g(a2, "night_mount")>>,
           <<"9) mount_who", g(a2, "mount_who")>>,
           <<"10) techs", g(a2, "techs_count")>>,
           <<"11) extra_equipment", g(a2, "extra_equipment")>>,
           <<"12) plugs", g(a2, "plugs")>>,
           <<"13) power", power_needed(a)>>,
           <<"14) power_where", IF pw # <<>> THEN fmt_list(pw) ELSE DASH>>,
           <<"15) dimmer", dim>> >>
        \o (IF dim = DA THEN << <<"16) dimmer_text", g(a2, "dimmer_text")>> >> ELSE <<>>)
        \o << <<"17) sfx", g(a2, "sfx_list")>>,
              <<"18) operator", GetOr(a, "operator", DASH)>>,
              <<"19) console_help", GetOr(a, "console_help", DASH)>>,
              <<"20) console", render_console_model(a)>> >>

\* the text: "\n".join(lines), each line "label: value"
answers_text(a) ==
    LET ls == answers_lines(a)
    IN  Join(<<NL>>, [i \in 1..Len(ls) |-> <<ls[i][1], ": ">> \o ls[i][2]])

-----------------------------------------------------------------------------
(* Store: src/db.py.  A table is the sequence of its rows in insertion order. *)

RowsOf(tbl, uid) == SelectSeq(tbl, LAMBDA r : r.user_id = uid)

\* an insert without the ON CONFLICT clause and without the primary key
insert_draft(tbl, uid, st, draft_json) ==
    Append(tbl, [user_id |-> uid, fsm_state |-> st, draft_json |-> draft_json])

\* INSERT ... ON CONFLICT(user_id) DO UPDATE: db.py 131-143
upsert_draft(tbl, uid, st, draft_json) ==
    LET row == [user_id |-> uid, fsm_state |-> st, draft_json |-> draft_json]
    IN  IF \E i \in 1..Len(tbl) : tbl[i].user_id = uid
        THEN [i \in 1..Len(tbl) |-> IF tbl[i].user_id = uid THEN row ELSE tbl[i]]
        ELSE Append(tbl, row)

\* db.get_draft(uid) is not None: db.py 145-150
has_draft(tbl, uid) == RowsOf(tbl, uid) # <<>>
get_draft(tbl, uid) == RowsOf(tbl, uid)[1]

\* a delete that removes nothing
keep_draft(tbl, uid) == tbl

\* a delete without the WHERE clause
delete_draft_all(tbl, uid) == <<>>

\* db.py 152-154
delete_draft(tbl, uid) == SelectSeq(tbl, LAMBDA r : r.user_id # uid)

\* the columns insert_submission writes: db.py 158-168
SubmissionCols ==
    << "org", "role", "name", "event_date", "event_title", "scene", "night_mount",
       "mount_who", "techs_count", "extra_equipment", "plugs", "power_type",
       "power_count", "power_where_json", "dimmer_needed", "dimmer_text", "operator",
       "console_help", "console_model", "ydisk_folder" >>

\* db.py 157-182: the row stored for payload a; values = [a.get(c, "") for c in cols].
\* updated_at counts the updates of the row: it stands for the time stamp, which
\* every update renews
insert_submission(new_id, uid, a) ==
    [k \in Range(SubmissionCols) \cup {"id", "user_id", "updated_at"} |->
        IF k = "id" THEN new_id
        ELSE IF k = "user_id" THEN uid
        ELSE IF k = "updated_at" THEN 0
        ELSE IF Has(a, k) THEN a[k] ELSE <<>>]

\* db.py 184-208: UPDATE submissions SET ... WHERE id=?
update_submission(tbl, sub_id, patch) ==
    LET allowed == (DOMAIN patch) \cap Range(SubmissionCols)
    IN  IF allowed = {} THEN tbl
        ELSE [i \in 1..Len(tbl) |->
                IF tbl[i]["id"] = sub_id
                THEN [k \in DOMAIN tbl[i] |->
                        IF k \in allowed THEN patch[k]
                        ELSE IF k = "updated_at" THEN tbl[i][k] + 1
                        ELSE tbl[i][k]]
                ELSE tbl[i]]

\* db.py 210-212
has_submission(tbl, sub_id) == \E i \in 1..Len(tbl) : tbl[i]["id"] = sub_id
get_submission(tbl, sub_id) == tbl[CHOOSE i \in 1..Len(tbl) : tbl[i]["id"] = sub_id]

\* db.py 214-219: ORDER BY id DESC LIMIT 1
has_last_submission(tbl, uid) == \E i \in 1..Len(tbl) : tbl[i]["user_id"] = uid
get_last_submission_by_user(tbl, uid) ==
    tbl[CHOOSE i \in 1..Len(tbl) :
            /\ tbl[i]["user_id"] = uid
            /\ \A j \in 1..Len(tbl) : tbl[j]["user_id"] = uid => tbl[j]["id"] <= tbl[i]["id"]]

\* db.py 106-118
upsert_user_last(tbl, uid, sub_id, folder) ==
    LET row == [user_id |-> uid, last_submission_id |-> sub_id, last_folder_path |-> folder]
    IN  IF \E i \in 1..Len(tbl) : tbl[i].user_id = uid
        THEN [i \in 1..Len(tbl) |-> IF tbl[i].user_id = uid THEN row ELSE tbl[i]]
        ELSE Append(tbl, row)

\* db.py 254-260
save_doc(tbl, uid, sub_id, file_name, path) ==
    Append(tbl, [id |-> Len(tbl) + 1, user_id |-> uid, submission_id |-> sub_id,
                 file_name |-> file_name, ydisk_path |-> path])

\* db.py 120-128: (last_submission_id, last_folder_path), (NULL, None) without a row
get_user_last(tbl, uid) ==
    IF \E i \in 1..Len(tbl) : tbl[i].user_id = uid
    THEN LET r == tbl[CHOOSE i \in 1..Len(tbl) : tbl[i].user_id = uid]
         IN  <<r.last_submission_id, r.last_folder_path>>
    ELSE <<0, <<>> >>

\* _safe_row_get(row, key, default): main.py 417-423
safe_row_get(row, key, default) == IF key \in DOMAIN row THEN row[key] ELSE default

OrText(v, dflt) == IF v = <<>> THEN dflt ELSE v

\* main.py 426-462
submission_to_dict(row) ==
    LET sfx_json == OrText(safe_row_get(row, "sfx_json", <<"[", "]">>), <<"[", "]">>)
    IN  [org |-> row["org"], role |-> row["role"], name |-> row["name"],
         phone |-> safe_row_get(row, "phone", <<>>),
         event_date |-> row["event_date"], event_title |-> row["event_title"],
         scene |-> row["scene"], night_mount |-> row["night_mount"],
         mount_who |-> row["mount_who"], techs_count |-> row["techs_count"],
         extra_equipment |-> row["extra_equipment"], plugs |-> row["plugs"],
         power_type |-> OrText(row["power_type"], NET),
         power_where_list |->
             json_loads_list(OrText(safe_row_get(row, "power_where_json", <<"[", "]">>),
                                    <<"[", "]">>)),
         dimmer_needed |-> row["dimmer_needed"], dimmer_text |-> row["dimmer_text"],
         sfx_json |-> sfx_json,
         sfx_other |-> safe_row_get(row, "sfx_other", <<>>),
         sfx_list |-> json_loads_list(sfx_json),
         operator |-> row["operator"], console_help |-> row["console_help"],
         console_model |-> row["console_model"], ydisk_folder |-> row["ydisk_folder"],
         id |-> row["id"], user_id |-> row["user_id"]]

-----------------------------------------------------------------------------
(* FSM storage helpers: src/main.py 405-414 and aiogram's FSMContext *)

NoState == "None"

SurveyStates ==
    {"Survey:org", "Survey:role", "Survey:name", "Survey:event_date", "Survey:event_title",
     "Survey:scene", "Survey:night_mount", "Survey:mount_who", "Survey:techs_count",
     "Survey:extra_equipment", "Survey:plugs", "Survey:power_type", "Survey:power_count",
     "Survey:power_where", "Survey:dimmer_needed", "Survey:dimmer_text", "Survey:sfx",
     "Survey:sfx_other", "Survey:operator", "Survey:console_help", "Survey:console_model",
     "Survey:phone", "Survey:confirm"}

EditPowerStates ==
    {"EditPower:power_type", "EditPower:power_count", "EditPower:power_where",
     "EditPower:confirm"}

\* draft_get(state): d.get("draft") or {}
draft_get(data) == IF Has(data, "draft") THEN data["draft"] ELSE EmptyDict

\* draft_set(state, patch): the FSM data afterwards
draft_set(data, patch) == Upd(data, [draft |-> Upd(draft_get(data), patch)])

NewDraft ==
    [power_types |-> <<>>, power_items |-> <<>>, power_i |-> 0, power_none |-> FALSE,
     sfx_list |-> <<>>, sfx_other |-> <<>>, sfx_none |-> FALSE]

NoMsg == Msg(<<>>, NoKb)

NoPause == [asked |-> NoMsg, st |-> NoState, draft |-> EmptyDict]

-----------------------------------------------------------------------------
(* The prompts of the dialogue, by question.  The same literal is sent by the *)
(* handler that enters the state and by m_resume, except for techs_count.     *)

P_org == Msg(<<"1) org?">>, kb_survey_reply)
P_role == Msg(<<"2) role?">>, kb_survey_reply)
P_name == Msg(<<"3) name?">>, kb_survey_reply)
P_event_date == Msg(<<"4) date? (DD.MM.YYYY)">>, kb_survey_reply)
P_event_title == Msg(<<"5) title?">>, kb_survey_reply)
P_scene == Msg(<<"6) scene?">>, kb_inline("scene", 2))
P_night_mount == Msg(<<"7) night mount?">>, kb_inline("night_mount", 2))
P_mount_who == Msg(<<"8) who mounts?">>, kb_inline("mount_who", 1))
\* s_inline, line 1299: "9) ... ponadobitsya?"
P_techs_count == Msg(<<"9) how many technicians?">>, kb_survey_reply)
\* m_resume, line 644: "9) ... ponadobitsya? (chislo)"
P_techs_count_resume == Msg(<<"9) how many technicians?", " (number)">>, kb_survey_reply)
P_extra_equipment == Msg(<<"10) extra equipment?">>, kb_inline("extra_equipment", 1))
P_plugs == Msg(<<"11) plugs?">>, kb_survey_reply)
P_power_type(d) ==
    Msg(<<"12) choose and press Dalee:">>,
        kb_power_types_multi(GetList(d, "power_types"),
                             Has(d, "power_none") /\ d["power_none"]))
P_power_count(type) == Msg(<<"13) how many for ">> \o type \o <<"?">>, kb_survey_reply)
P_power_where(type) == Msg(<<"14) where for ">> \o type \o <<"?">>, kb_inline("power_where", 2))
P_power_where_left(type, left) ==
    Msg(<<"14) where for ">> \o type \o <<"?">> \o <<" left ">> \o IntStr(left),
        kb_inline("power_where", 2))
P_dimmer_needed == Msg(<<"15) dimmer?">>, kb_inline("dimmer_needed", 2))
P_dimmer_text == Msg(<<"16) dimmer: where and how many?">>, kb_survey_reply)
P_sfx(d) ==
    Msg(<<"17) choose and press Dalee:">>,
        kb_sfx_multi(GetList(d, "sfx_list"), Has(d, "sfx_none") /\ d["sfx_none"]))
P_sfx_other == Msg(<<"your special effects:">>, kb_survey_reply)
P_operator == Msg(<<"18) who operates?">>, kb_inline("operator", 1))
P_console_help(d) ==
    Msg(<<"19) we use ">>
          \o (IF GetText(d, "scene") = BIG_HALL THEN <<"GrandMa2 Light">>
              ELSE <<"Chamsys MQ500">>)
          \o <<". help?">>,
        kb_inline("console_help", 1))
P_console_model == Msg(<<"20) your console?">>, kb_survey_reply)
P_phone == Msg(<<"21) phone?">>, kb_survey_reply)
P_confirm(d) == Msg(<<"Check:", NL, NL>> \o answers_text(d), kb_inline("confirm", 2))

E_date == Msg(<<"date format: DD.MM.YYYY">>, kb_survey_reply)
E_number == Msg(<<"enter a number > 0">>, kb_survey_reply)
E_phone == Msg(<<"enter a phone">>, kb_survey_reply)

-----------------------------------------------------------------------------
(* What the users type and press in this exploration *)

IN_org == {<<" ", "O", "r", "g">>}
IN_role == {<<"Role">>}
IN_name == {<<"Name">>}
IN_event_date ==
    {<<"0", "1", ".", "0", "1", ".", "2", "0", "3", "0">>,
     <<"2", "9", ".", "0", "2", ".", "2", "0", "2", "1">>}
IN_event_title == {<<"G", "a", "l", "a">>}
IN_techs_count == {<<"3">>, <<"0">>, <<"sup2">>}
IN_plugs == {<<"Schuko">>}
IN_power_count == {IntStr(n) : n \in 0..MaxCount}
IN_dimmer_text == {<<"2 left">>}
IN_sfx_other == {<<"Laser">>}
IN_console_model == {<<"Avolites">>}
IN_phone == {<<"+", "7", " ", " ", "9", "9", "9">>, <<"1", "2", "3">>}

\* the option indices pressed, per single-choice field
Pressed(field) ==
    CASE field = "scene" -> {0}
      [] field = "night_mount" -> {0}
      [] field = "mount_who" -> {0}
      [] field = "extra_equipment" -> {1}
      [] field = "power_where" -> {0}
      [] field = "dimmer_needed" -> {0}
      [] field = "operator" -> {0}
      [] field = "console_help" -> {2}
      [] field = "confirm" -> {0, 1}

PressedPower == 1..NPowerOpts
PressedSfx == {5}

-----------------------------------------------------------------------------
(* Handlers.  Each action is one handler run to completion for one user. *)

DbUnchanged == UNCHANGED <<db_drafts, db_submissions, db_seq, db_users, db_docs>>

\* the FSM part of a handler's effect and what it sent
Fsm(u, st, data, msgs) ==
    /\ fsm_state' = [fsm_state EXCEPT ![u] = st]
    /\ fsm_data' = [fsm_data EXCEPT ![u] = data]
    /\ sent' = [sent EXCEPT ![u] = msgs]

Ask(u, q) == asked' = [asked EXCEPT ![u] = q]

\* a survey handler that accepts an answer and asks the next question q
Advance(u, st, data, q) ==
    /\ Fsm(u, st, data, <<q>>)
    /\ Ask(u, q)
    /\ DbUnchanged
    /\ UNCHANGED <<at_pause, inflight>>

\* a handler that only answers with msgs
Notice(u, msgs) ==
    /\ sent' = [sent EXCEPT ![u] = msgs]
    /\ DbUnchanged
    /\ UNCHANGED <<fsm_state, fsm_data, asked, at_pause, inflight>>

\* state.clear()
Cleared == EmptyDict

\* main.py 572-592
m_survey(u) ==
    IF has_draft(db_drafts, u)
    THEN /\ Fsm(u, NoState, Cleared, <<Msg(<<"unfinished survey. what now?">>, kb_resume_or_new)>>)
         /\ Ask(u, NoMsg)
         /\ DbUnchanged
         /\ UNCHANGED <<at_pause, inflight>>
    ELSE Advance(u, "Survey:org", draft_set(Cleared, NewDraft), P_org)

\* main.py 595-605
m_new(u) ==
    /\ db_drafts' = delete_draft(db_drafts, u)
    /\ Fsm(u, "Survey:org", draft_set(Cleared, NewDraft), <<P_org>>)
    /\ Ask(u, P_org)
    /\ at_pause' = [at_pause EXCEPT ![u] = NoPause]
    /\ UNCHANGED inflight
    /\ UNCHANGED <<db_submissions, db_seq, db_users, db_docs>>

\* main.py 818-821
m_back(u) ==
    /\ Fsm(u, NoState, Cleared, <<Msg(<<"menu:">>, kb_menu(u, has_draft(db_drafts, u)))>>)
    /\ Ask(u, NoMsg)
    /\ DbUnchanged
    /\ UNCHANGED <<at_pause, inflight>>

\* main.py 990-994
s_org(u) ==
    /\ fsm_state[u] = "Survey:org"
    /\ \E text \in IN_org :
        Advance(u, "Survey:role", draft_set(fsm_data[u], [org |-> Strip(OrEmpty(text))]),
                P_role)

\* main.py 997-1001
s_role(u) ==
    /\ fsm_state[u] = "Survey:role"
    /\ \E text \in IN_role :
        Advance(u, "Survey:name", draft_set(fsm_data[u], [role |-> Strip(OrEmpty(text))]),
                P_name)

\* main.py 1004-1008
s_name(u) ==
    /\ fsm_state[u] = "Survey:name"
    /\ \E text \in IN_name :
        Advance(u, "Survey:event_date",
                draft_set(fsm_data[u], [name |-> Strip(OrEmpty(text))]), P_event_date)

\* main.py 1011-1019, for the message text
s_date_text(u, text) ==
    /\ fsm_state[u] = "Survey:event_date"
    /\ LET nd == norm_date(text)
       IN  IF nd = NONE
           THEN Notice(u, <<E_date>>)
           ELSE Advance(u, "Survey:event_title",
                        draft_set(fsm_data[u], [event_date |-> nd]), P_event_title)

\* main.py 1011-1019
s_date(u) == \E text \in IN_event_date : s_date_text(u, text)

\* main.py 1022-1026
s_event_title(u) ==
    /\ fsm_state[u] = "Survey:event_title"
    /\ \E text \in IN_event_title :
        Advance(u, "Survey:scene",
                draft_set(fsm_data[u], [event_title |-> Strip(OrEmpty(text))]), P_scene)

\* main.py 1029-1037
s_techs(u) ==
    /\ fsm_state[u] = "Survey:techs_count"
    /\ \E text \in IN_techs_count :
        LET n == int_pos(text)
        IN  IF n < 0
            THEN Notice(u, <<>>)          \* the handler ends in the exception
            ELSE IF n = 0
            THEN Notice(u, <<E_number>>)
            ELSE Advance(u, "Survey:extra_equipment",
                         draft_set(fsm_data[u], [techs_count |-> IntStr(n)]),
                         P_extra_equipment)

\* main.py 1040-1050
s_plugs(u) ==
    /\ fsm_state[u] = "Survey:plugs"
    /\ \E text \in IN_plugs :
        LET data == draft_set(fsm_data[u], [plugs |-> Strip(OrEmpty(text))])
        IN  Advance(u, "Survey:power_type", data, P_power_type(draft_get(data)))

\* a cursor that is never read back: always the first item
power_i_zero(d) == 0

\* int(d.get("power_i") or 0)
power_i_of(d) == IF Has(d, "power_i") THEN d["power_i"] ELSE 0

InEdit(st) == st \in EditPowerStates

P_ep_confirm_none == Msg(<<"power: Net. save?">>, kb_inline("confirm", 2))
P_ep_confirm == Msg(<<"save power changes?">>, kb_inline("confirm", 2))
P_ep_power_where(type) == Msg(<<"where for ">> \o type \o <<"?">>, kb_inline("power_where", 2))

\* "type - count: where, where" for every item: main.py 1358-1361
ep_parts(items) ==
    Join(<<NL>>, [i \in 1..Len(items) |->
                    items[i].type \o <<" - ">> \o IntStr(items[i].count) \o <<": ">>
                        \o Join(<<", ">>, items[i].where)])

P_ep_confirm_items(items) ==
    Msg(<<"power:", NL>> \o ep_parts(items) \o <<NL, NL, "save?">>, kb_inline("confirm", 2))

\* the count handlers s_power_count (1053-1074) and ep_power_count (1115-1136)
power_count_handler(u, text, edit) ==
    LET n == int_pos(text)
        d == draft_get(fsm_data[u])
        items == GetList(d, "power_items")
        i == power_i_of(d)
    IN  IF n < 0 THEN Notice(u, <<>>)      \* the handler ends in the exception
        ELSE IF n = 0 THEN Notice(u, <<E_number>>)
        ELSE IF i >= Len(items)
        THEN IF edit
             THEN Advance(u, "EditPower:confirm", fsm_data[u], P_ep_confirm)
             ELSE Advance(u, "Survey:dimmer_needed", fsm_data[u], P_dimmer_needed)
        ELSE LET items2 == [items EXCEPT ![i + 1] = [@ EXCEPT !.count = n, !.where = <<>>]]
                 data == draft_set(fsm_data[u], [power_items |-> items2])
             IN  IF edit
                 THEN Advance(u, "EditPower:power_where", data,
                              P_ep_power_where(items2[i + 1].type))
                 ELSE Advance(u, "Survey:power_where", data,
                              P_power_where(items2[i + 1].type))

s_power_count(u) ==
    /\ fsm_state[u] = "Survey:power_count"
    /\ \E text \in IN_power_count : power_count_handler(u, text, FALSE)

ep_power_count(u) ==
    /\ fsm_state[u] = "EditPower:power_count"
    /\ \E text \in IN_power_count : power_count_handler(u, text, TRUE)

\* main.py 1077-1086
s_dimmer_text(u) ==
    /\ fsm_state[u] = "Survey:dimmer_text"
    /\ \E text \in IN_dimmer_text :
        LET data == draft_set(fsm_data[u], [dimmer_text |-> Strip(OrEmpty(text))])
        IN  Advance(u, "Survey:sfx", data, P_sfx(draft_get(data)))

\* main.py 1089-1093
s_sfx_other(u) ==
    /\ fsm_state[u] = "Survey:sfx_other"
    /\ \E text \in IN_sfx_other :
        Advance(u, "Survey:operator",
                draft_set(fsm_data[u], [sfx_other |-> Strip(OrEmpty(text))]), P_operator)

\* main.py 1096-1105; answers_text writes the rendered list into the dict it is
\* given, which is the draft object the FSM storage holds (get_data copies the
\* outer dict only)
s_phone(u) ==
    /\ fsm_state[u] = "Survey:phone"
    /\ \E text \in IN_phone :
        LET ph == norm_phone(text)
            data == draft_set(fsm_data[u], [phone |-> ph])
            d2 == draft_get(data)
        IN  IF ph = NONE
            THEN Notice(u, <<E_phone>>)
            ELSE Advance(u, "Survey:confirm", Upd(data, [draft |-> answers_text_arg(d2)]),
                         P_confirm(d2))

\* main.py 1108-1112
s_console_model(u) ==
    /\ fsm_state[u] = "Survey:console_model"
    /\ \E text \in IN_console_model :
        Advance(u, "Survey:phone",
                draft_set(fsm_data[u], [console_model |-> Strip(OrEmpty(text))]), P_phone)

-----------------------------------------------------------------------------
(* Multi-select callbacks: main.py 1139-1266 *)

\* the option a "xx:opt:<i>" button names, or <<>> when the index is out of range
cb_opt(data, opts) ==
    LET idx == ParseInt(SubSeq(data, 5, Len(data)))
    IN  IF idx >= 0 /\ idx < Len(opts) THEN opts[idx + 1] ELSE <<>>

\* a press that only ever selects
toggle_add(sel, val) ==
    IF val = <<>> \/ val = NET \/ InList(val, sel) THEN sel ELSE Append(sel, val)

\* sel after pressing val: lines 1187-1191 and 1252-1256
toggle(sel, val) ==
    IF val = <<>> \/ val = NET THEN sel
    ELSE IF InList(val, sel) THEN ListRemove(sel, val)
    ELSE Append(sel, val)

\* call.message.edit_reply_markup(kb): the pressed message with its new keyboard
EditMarkup(u, st, data, kb) ==
    LET m == Msg(asked[u].text, kb)
    IN  Advance(u, st, data, m)

\* items that start with one connection each
NewItems_counted(sel) == [i \in 1..Len(sel) |-> [type |-> sel[i], count |-> 1, where |-> <<>>]]

\* line 1176
NewItems(sel) == [i \in 1..Len(sel) |-> [type |-> sel[i], count |-> 0, where |-> <<>>]]

\* a handler that also serves the count and placement states
PtStatesLoop ==
    {"Survey:power_type", "EditPower:power_type", "Survey:power_count",
     "EditPower:power_count", "Survey:power_where", "EditPower:power_where"}

\* line 1142: the states in which power_types_cb acts
PtStates == {"Survey:power_type", "EditPower:power_type"}

\* any selection asks for the elaboration
other_selected_any(sel) == sel # <<>>

\* line 1235: "Drugoe" in sel
other_selected(sel) == InList(SFX_OTHER, sel)

\* main.py 1139-1201
power_types_cb(u, data) ==
    LET st == fsm_state[u]
        d == draft_get(fsm_data[u])
        sel == GetList(d, "power_types")
    IN  IF st \notin PtStates
        THEN UNCHANGED vars
        ELSE IF data = <<"pt", ":", "none">>
        THEN EditMarkup(u, st,
                 draft_set(fsm_data[u], [power_types |-> <<>>, power_items |-> <<>>,
                                         power_i |-> 0, power_none |-> TRUE]),
                 kb_power_types_multi(<<>>, TRUE))
        ELSE IF data = <<"pt", ":", "done">>
        THEN IF sel = <<>>
             THEN LET data2 == draft_set(fsm_data[u],
                                   [power_types |-> sel, power_items |-> <<>>, power_i |-> 0])
                  IN  IF st = "EditPower:power_type"
                      THEN Advance(u, "EditPower:confirm", data2, P_ep_confirm_none)
                      ELSE Advance(u, "Survey:dimmer_needed", data2, P_dimmer_needed)
             ELSE LET items == NewItems(sel)
                      data2 == draft_set(fsm_data[u],
                                   [power_types |-> sel, power_items |-> items, power_i |-> 0])
                  IN  Advance(u, IF st = "EditPower:power_type" THEN "EditPower:power_count"
                                 ELSE "Survey:power_count",
                              data2, P_power_count(items[1].type))
        ELSE LET sel2 == toggle(sel, cb_opt(data, SURVEY_OPTIONS["power_type"]))
             IN  EditMarkup(u, st,
                     draft_set(fsm_data[u], [power_types |-> sel2, power_none |-> FALSE]),
                     kb_power_types_multi(sel2, FALSE))

sfx_cb(u, data) ==
    LET st == fsm_state[u]
        d == draft_get(fsm_data[u])
        sel == GetList(d, "sfx_list")
    IN  IF st # "Survey:sfx"
        THEN UNCHANGED vars
        ELSE IF data = <<"sx", ":", "none">>
        THEN EditMarkup(u, st,
                 draft_set(fsm_data[u], [sfx_list |-> <<>>, sfx_other |-> <<>>,
                                         sfx_none |-> TRUE]),
                 kb_sfx_multi(<<>>, TRUE))
        ELSE IF data = <<"sx", ":", "done">>
        THEN IF sel = <<>>
             THEN Advance(u, "Survey:operator",
                          draft_set(fsm_data[u], [sfx_list |-> <<>>, sfx_other |-> <<>>]),
                          P_operator)
             ELSE IF other_selected(sel)
             THEN Advance(u, "Survey:sfx_other", draft_set(fsm_data[u], [sfx_list |-> sel]),
                          P_sfx_other)
             ELSE Advance(u, "Survey:operator",
                          draft_set(fsm_data[u], [sfx_list |-> sel, sfx_other |-> <<>>]),
                          P_operator)
        ELSE LET sel2 == toggle(sel, cb_opt(data, SURVEY_OPTIONS["sfx"]))
             IN  EditMarkup(u, st,
                     draft_set(fsm_data[u], [sfx_list |-> sel2, sfx_none |-> FALSE]),
                     kb_sfx_multi(sel2, FALSE))

-----------------------------------------------------------------------------
(* Single-choice callback s_inline: main.py 1269-1546 *)

\* "ans:<field>:<idx>" taken apart: call.data.split(":", 2)
cb_field(data) == data[3]
cb_value(data) == SURVEY_OPTIONS[cb_field(data)][ParseInt(SubSeq(data, 5, Len(data))) + 1]
AnsData(field, idx) == <<"ans", ":", field, ":">> \o IntStr(idx)

\* lines 1284-1288
s_inline_scene(u, data) ==
    /\ cb_field(data) = "scene" /\ fsm_state[u] = "Survey:scene"
    /\ Advance(u, "Survey:night_mount", draft_set(fsm_data[u], [scene |-> cb_value(data)]),
               P_night_mount)

\* lines 1290-1294
s_inline_night_mount(u, data) ==
    /\ cb_field(data) = "night_mount" /\ fsm_state[u] = "Survey:night_mount"
    /\ Advance(u, "Survey:mount_who",
               draft_set(fsm_data[u], [night_mount |-> cb_value(data)]), P_mount_who)

\* lines 1296-1300
s_inline_mount_who(u, data) ==
    /\ cb_field(data) = "mount_who" /\ fsm_state[u] = "Survey:mount_who"
    /\ Advance(u, "Survey:techs_count",
               draft_set(fsm_data[u], [mount_who |-> cb_value(data)]), P_techs_count)

\* an extra-equipment answer that always asks for the plugs
s_inline_extra_equipment_no_skip(u, data) ==
    /\ cb_field(data) = "extra_equipment" /\ fsm_state[u] = "Survey:extra_equipment"
    /\ Advance(u, "Survey:plugs",
               draft_set(fsm_data[u], [extra_equipment |-> cb_value(data)]), P_plugs)

\* lines 1302-1316
s_inline_extra_equipment(u, data) ==
    /\ cb_field(data) = "extra_equipment" /\ fsm_state[u] = "Survey:extra_equipment"
    /\ LET value == cb_value(data)
           data1 == draft_set(fsm_data[u], [extra_equipment |-> value])
           data2 == draft_set(data1, [plugs |-> DASH])
       IN  IF value = NET
           THEN Advance(u, "Survey:power_type", data2, P_power_type(draft_get(data2)))
           ELSE Advance(u, "Survey:plugs", data1, P_plugs)

\* a placement press that asks again and records nothing
s_inline_power_where_again(u, data) ==
    /\ cb_field(data) = "power_where"
    /\ fsm_state[u] \in {"Survey:power_where", "EditPower:power_where"}
    /\ LET d == draft_get(fsm_data[u])
           cur == GetList(d, "power_items")[power_i_of(d) + 1]
       IN  Advance(u, fsm_state[u], fsm_data[u], P_power_where_left(cur.type, cur.count))

\* lines 1318-1365
s_inline_power_where(u, data) ==
    /\ cb_field(data) = "power_where"
    /\ fsm_state[u] \in {"Survey:power_where", "EditPower:power_where"}
    /\ LET edit == fsm_state[u] = "EditPower:power_where"
           d == draft_get(fsm_data[u])
           items == GetList(d, "power_items")
           i == power_i_of(d)
       IN  IF i >= Len(items)
           THEN IF edit
                THEN Advance(u, "EditPower:confirm", fsm_data[u], P_ep_confirm)
                ELSE Advance(u, "Survey:dimmer_needed", fsm_data[u], P_dimmer_needed)
           ELSE
           LET cur == items[i + 1]
               need == cur.count
               wh == IF Len(cur.where) < need THEN Append(cur.where, cb_value(data))
                     ELSE cur.where
               items2 == [items EXCEPT ![i + 1] = [cur EXCEPT !.where = wh]]
               data1 == IF Len(cur.where) < need
                        THEN draft_set(fsm_data[u], [power_items |-> items2])
                        ELSE fsm_data[u]
           IN  IF Len(wh) < need
               THEN Advance(u, fsm_state[u], data1,
                            P_power_where_left(cur.type, need - Len(wh)))
               ELSE IF i + 1 < Len(items)
               THEN Advance(u, IF edit THEN "EditPower:power_count" ELSE "Survey:power_count",
                            draft_set(data1, [power_i |-> i + 1]),
                            P_power_count(items2[i + 2].type))
               ELSE IF edit
               THEN Advance(u, "EditPower:confirm", data1, P_ep_confirm_items(items2))
               ELSE Advance(u, "Survey:dimmer_needed", data1, P_dimmer_needed)

\* a dimmer answer that stores no placeholder text
s_inline_dimmer_needed_no_default(u, data) ==
    /\ cb_field(data) = "dimmer_needed" /\ fsm_state[u] = "Survey:dimmer_needed"
    /\ LET value == cb_value(data)
           data1 == draft_set(fsm_data[u], [dimmer_needed |-> value])
       IN  IF value = NET
           THEN Advance(u, "Survey:sfx", data1, P_sfx(draft_get(data1)))
           ELSE Advance(u, "Survey:dimmer_text", data1, P_dimmer_text)

\* lines 1367-1381
s_inline_dimmer_needed(u, data) ==
    /\ cb_field(data) = "dimmer_needed" /\ fsm_state[u] = "Survey:dimmer_needed"
    /\ LET value == cb_value(data)
           data1 == draft_set(fsm_data[u], [dimmer_needed |-> value])
           data2 == draft_set(data1, [dimmer_text |-> DASH])
       IN  IF value = NET
           THEN Advance(u, "Survey:sfx", data2, P_sfx(draft_get(data2)))
           ELSE Advance(u, "Survey:dimmer_text", data1, P_dimmer_text)

\* value.startswith("Operator"): the first token of the label
StartsWith(text, prefix) == Len(text) >= Len(prefix) /\ SubSeq(text, 1, Len(prefix)) = prefix

\* an operator answer compared with the whole label instead of its beginning
s_inline_operator_exact(u, data) ==
    /\ cb_field(data) = "operator" /\ fsm_state[u] = "Survey:operator"
    /\ LET value == cb_value(data)
           data1 == draft_set(fsm_data[u], [operator |-> value])
           data2 == draft_set(data1, [console_help |-> DASH, console_model |-> DASH])
       IN  IF value = <<"Operator">>
           THEN Advance(u, "Survey:phone", data2, P_phone)
           ELSE Advance(u, "Survey:console_help", data1, P_console_help(draft_get(data1)))

\* lines 1383-1397
s_inline_operator(u, data) ==
    /\ cb_field(data) = "operator" /\ fsm_state[u] = "Survey:operator"
    /\ LET value == cb_value(data)
           data1 == draft_set(fsm_data[u], [operator |-> value])
           data2 == draft_set(data1, [console_help |-> DASH, console_model |-> DASH])
       IN  IF StartsWith(value, <<"Operator">>)
           THEN Advance(u, "Survey:phone", data2, P_phone)
           ELSE Advance(u, "Survey:console_help", data1, P_console_help(draft_get(data1)))

\* a console-help answer that asks for the model unless the answer is "Net"
s_inline_console_help_unless_no(u, data) ==
    /\ cb_field(data) = "console_help" /\ fsm_state[u] = "Survey:console_help"
    /\ LET value == cb_value(data)
           data1 == draft_set(fsm_data[u], [console_help |-> value])
       IN  IF value # NET
           THEN Advance(u, "Survey:console_model", data1, P_console_model)
           ELSE Advance(u, "Survey:phone", draft_set(data1, [console_model |-> DASH]),
                        P_phone)

\* lines 1399-1408
s_inline_console_help(u, data) ==
    /\ cb_field(data) = "console_help" /\ fsm_state[u] = "Survey:console_help"
    /\ LET value == cb_value(data)
           data1 == draft_set(fsm_data[u], [console_help |-> value])
       IN  IF value = OWN_CONSOLE
           THEN Advance(u, "Survey:console_model", data1, P_console_model)
           ELSE Advance(u, "Survey:phone", draft_set(data1, [console_model |-> DASH]),
                        P_phone)

\* lines 1418-1436 and 1473-1489: the power summary of a draft being stored
summary_items(d) ==
    IF GetList(d, "power_items") = <<>> /\ GetList(d, "power_types") # <<>>
    THEN NewItems(GetList(d, "power_types"))
    ELSE GetList(d, "power_items")

RECURSIVE SumCounts(_)
SumCounts(items) == IF items = <<>> THEN 0 ELSE Head(items).count + SumCounts(Tail(items))

\* the type summary without the "Net" of an empty item list
joined_types(d) == Join(<<", ">>, ItemTypes(summary_items(d)))

summary_power_type(d) ==
    IF summary_items(d) = <<>> THEN NET ELSE Join(<<", ">>, ItemTypes(summary_items(d)))

summary_where_list(d) ==
    LET items == summary_items(d)
    IN  Concat([i \in 1..Len(items) |->
                  [j \in 1..Len(items[i].where) |-> WhereEntry(items[i].type, items[i].where[j])]])

\* the number of items instead of the number of connections
count_items(d) == Len(summary_items(d))

summary_count(d) == SumCounts(summary_items(d))

MenuMsg(u, has) == Msg(<<"menu:">>, kb_menu(u, has))

\* a handler end that sends msgs and forgets state.clear()
LeaveInState(u, msgs) ==
    /\ Fsm(u, fsm_state[u], fsm_data[u], msgs)
    /\ Ask(u, NoMsg)

\* a handler that ends the dialogue: state.clear() and msgs
Leave(u, msgs) ==
    /\ Fsm(u, NoState, Cleared, msgs)
    /\ Ask(u, NoMsg)

\* a confirmation that overwrites the power fields whatever was pressed
s_inline_ep_confirm_always(u, data) ==
    /\ cb_field(data) = "confirm" /\ fsm_state[u] = "EditPower:confirm"
    /\ LET d2 == draft_get(fsm_data[u])
           patch == [power_type |-> summary_power_type(d2),
                     power_count |-> IntStr(summary_count(d2)),
                     power_where_json |-> json_dumps_list(summary_where_list(d2))]
       IN  /\ db_submissions' =
                  update_submission(db_submissions, fsm_data[u]["edit_sub_id"], patch)
           /\ Leave(u, <<Msg(<<"power updated">>, kb_menu(u, has_draft(db_drafts, u)))>>)
           /\ UNCHANGED <<db_drafts, db_seq, db_users, db_docs>>
    /\ UNCHANGED <<at_pause, inflight>>

\* lines 1411-1454: the confirmation of a power edit
s_inline_ep_confirm(u, data) ==
    /\ cb_field(data) = "confirm" /\ fsm_state[u] = "EditPower:confirm"
    /\ LET d2 == draft_get(fsm_data[u])
           patch == [power_type |-> summary_power_type(d2),
                     power_count |-> IntStr(summary_count(d2)),
                     power_where_json |-> json_dumps_list(summary_where_list(d2))]
       IN  IF StartsWith(cb_value(data), <<"[again]">>) \/ ~Has(fsm_data[u], "edit_sub_id")
           THEN /\ Leave(u, <<MenuMsg(u, has_draft(db_drafts, u))>>)
                /\ DbUnchanged
           ELSE /\ db_submissions' =
                       update_submission(db_submissions, fsm_data[u]["edit_sub_id"], patch)
                /\ Leave(u, <<Msg(<<"power updated">>, kb_menu(u, has_draft(db_drafts, u)))>>)
                /\ UNCHANGED <<db_drafts, db_seq, db_users, db_docs>>
    /\ UNCHANGED <<at_pause, inflight>>

\* a restart that begins the next pass at once
s_inline_restart_new_pass(u, data) ==
    /\ cb_field(data) = "confirm" /\ fsm_state[u] = "Survey:confirm"
    /\ StartsWith(cb_value(data), <<"[again]">>)
    /\ db_drafts' = delete_draft(db_drafts, u)
    /\ Fsm(u, "Survey:org", Cleared, <<MenuMsg(u, FALSE)>>)
    /\ Ask(u, NoMsg)
    /\ at_pause' = [at_pause EXCEPT ![u] = NoPause]
    /\ UNCHANGED inflight
    /\ UNCHANGED <<db_submissions, db_seq, db_users, db_docs>>

\* lines 1456-1460: restart at the survey confirm step
s_inline_restart(u, data) ==
    /\ cb_field(data) = "confirm" /\ fsm_state[u] = "Survey:confirm"
    /\ StartsWith(cb_value(data), <<"[again]">>)
    /\ db_drafts' = delete_draft(db_drafts, u)
    /\ Leave(u, <<MenuMsg(u, FALSE)>>)
    /\ at_pause' = [at_pause EXCEPT ![u] = NoPause]
    /\ UNCHANGED inflight
    /\ UNCHANGED <<db_submissions, db_seq, db_users, db_docs>>

\* lines 1462-1493: the draft dict after the defaults and the summary are written
\* into it (d2 is the object the FSM storage holds)
commit_d2(d) ==
    LET d1 == SetDefault(SetDefault(SetDefault(SetDefault(SetDefault(SetDefault(
                  SetDefault(SetDefault(SetDefault(d,
                      "plugs", DASH), "dimmer_needed", NET), "dimmer_text", DASH),
                      "console_help", DASH), "console_model", DASH),
                      "event_title", <<"Meropriyatie">>), "sfx_list", <<>>),
                      "sfx_other", <<>>), "phone", <<>>)
    IN  Upd(d1, [power_type |-> summary_power_type(d1),
                 sfx_json |-> json_dumps_list(GetList(d1, "sfx_list")),
                 sfx_other |-> Strip(GetText(d1, "sfx_other"))])

\* lines 1495-1504
commit_payload(d2) ==
    Upd(d2, [power_count |-> IntStr(summary_count(d2)),
             power_where_json |-> json_dumps_list(summary_where_list(d2)),
             ydisk_folder |-> folder_for(d2["event_date"], d2["org"], d2["event_title"])])

\* lines 1529-1534
docx_name(sub_id, p) ==
    <<"anketa_">> \o IntStr(sub_id) \o <<"_">> \o sanitize_name(p["event_date"]) \o <<"_">>
        \o sanitize_name(p["org"]) \o <<"_">> \o sanitize_name(p["event_title"])
        \o <<".docx">>

THANKS == <<"thanks">>

\* lines 1462-1544: accepting the survey confirm step.  folder_ok: both
\* yd.ensure_folder calls return; doc_ok: the docx is built and uploaded
s_inline_commit(u, data, folder_ok, doc_ok) ==
    /\ cb_field(data) = "confirm" /\ fsm_state[u] = "Survey:confirm"
    /\ ~StartsWith(cb_value(data), <<"[again]">>)
    /\ LET d2 == commit_d2(draft_get(fsm_data[u]))
           payload == commit_payload(d2)
           sub_id == db_seq + 1
           folder == payload["ydisk_folder"]
           fname == sanitize_name(docx_name(sub_id, payload))
       IN  IF ~folder_ok
           THEN \* the exception leaves the handler: d2 keeps what was written into it
                /\ fsm_data' = [fsm_data EXCEPT ![u] = Upd(@, [draft |-> d2])]
                /\ DbUnchanged
                /\ UNCHANGED <<fsm_state, sent, asked, at_pause, inflight>>
           ELSE /\ db_submissions' = Append(db_submissions, insert_submission(sub_id, u, payload))
                /\ db_seq' = sub_id
                /\ db_users' = upsert_user_last(db_users, u, sub_id, folder)
                /\ db_drafts' = delete_draft(db_drafts, u)
                /\ db_docs' = IF doc_ok
                              THEN save_doc(db_docs, u, sub_id, fname, folder \o <<"/">> \o fname)
                              ELSE db_docs
                /\ Leave(u, <<Msg(THANKS, kb_menu(u, FALSE)),
                              Msg(<<"survey saved">>, kb_menu(u, FALSE))>>)
                /\ at_pause' = [at_pause EXCEPT ![u] = NoPause]
                /\ UNCHANGED inflight

\* the step of the survey that asks a single-choice field
SURVEY_STATE_OF ==
    [scene |-> "Survey:scene", night_mount |-> "Survey:night_mount",
     mount_who |-> "Survey:mount_who", extra_equipment |-> "Survey:extra_equipment",
     dimmer_needed |-> "Survey:dimmer_needed", operator |-> "Survey:operator",
     console_help |-> "Survey:console_help"]

\* a press that matches no branch and ends the dialogue
s_inline_stale_clears(u, data) ==
    /\ ~ \/ cb_field(data) \in {"scene", "night_mount", "mount_who", "extra_equipment",
                                 "dimmer_needed", "operator", "console_help"}
              /\ fsm_state[u] = SURVEY_STATE_OF[cb_field(data)]
         \/ cb_field(data) = "power_where"
              /\ fsm_state[u] \in {"Survey:power_where", "EditPower:power_where"}
         \/ cb_field(data) = "confirm"
              /\ fsm_state[u] \in {"Survey:confirm", "EditPower:confirm"}
    /\ Leave(u, <<MenuMsg(u, has_draft(db_drafts, u))>>)
    /\ DbUnchanged
    /\ UNCHANGED <<at_pause, inflight>>

\* line 1546 and the early returns: a press that matches no branch
s_inline_stale(u, data) ==
    /\ ~ \/ cb_field(data) = "scene" /\ fsm_state[u] = "Survey:scene"
         \/ cb_field(data) = "night_mount" /\ fsm_state[u] = "Survey:night_mount"
         \/ cb_field(data) = "mount_who" /\ fsm_state[u] = "Survey:mount_who"
         \/ cb_field(data) = "extra_equipment" /\ fsm_state[u] = "Survey:extra_equipment"
         \/ cb_field(data) = "power_where"
              /\ fsm_state[u] \in {"Survey:power_where", "EditPower:power_where"}
         \/ cb_field(data) = "dimmer_needed" /\ fsm_state[u] = "Survey:dimmer_needed"
         \/ cb_field(data) = "operator" /\ fsm_state[u] = "Survey:operator"
         \/ cb_field(data) = "console_help" /\ fsm_state[u] = "Survey:console_help"
         \/ cb_field(data) = "confirm"
              /\ fsm_state[u] \in {"Survey:confirm", "EditPower:confirm"}
    /\ UNCHANGED vars

s_inline(u, data) ==
    \/ s_inline_scene(u, data)
    \/ s_inline_night_mount(u, data)
    \/ s_inline_mount_who(u, data)
    \/ s_inline_extra_equipment(u, data)
    \/ s_inline_power_where(u, data)
    \/ s_inline_dimmer_needed(u, data)
    \/ s_inline_operator(u, data)
    \/ s_inline_console_help(u, data)
    \/ s_inline_ep_confirm(u, data)
    \/ s_inline_restart(u, data)
    \/ \E folder_ok, doc_ok \in BOOLEAN : s_inline_commit(u, data, folder_ok, doc_ok)
    \/ s_inline_stale(u, data)

-----------------------------------------------------------------------------
(* Pause and resume: main.py 845-857 and 608-704 *)

\* the survey states outside the power loop
IsTopLevel(st) == st \in SurveyStates \ {"Survey:power_count", "Survey:power_where"}

IsSurvey(st) == st \in SurveyStates

\* main.py 845-857
survey_pause_reply(u) ==
    LET st == fsm_state[u]
    IN  IF ~IsSurvey(st) /\ ~InEdit(st)
        THEN Notice(u, <<Msg(<<"no survey is running">>, kb_menu(u, has_draft(db_drafts, u)))>>)
        ELSE IF InEdit(st)
        THEN Notice(u, <<Msg(<<"finish the power edit first">>,
                             kb_menu(u, has_draft(db_drafts, u)))>>)
        ELSE /\ db_drafts' = upsert_draft(db_drafts, u, st, json_dumps(draft_get(fsm_data[u])))
             /\ Fsm(u, NoState, Cleared, <<Msg(<<"saved. resume later">>, kb_menu(u, TRUE))>>)
             /\ at_pause' = [at_pause EXCEPT ![u] =
                                 [asked |-> asked[u], st |-> st,
                                  draft |-> draft_get(fsm_data[u])]]
             /\ UNCHANGED inflight
             /\ Ask(u, NoMsg)
             /\ UNCHANGED <<db_submissions, db_seq, db_users, db_docs>>

\* lines 627-701: the prompt m_resume sends for state st and draft d2
resume_prompt(st, d2) ==
    LET items == GetList(d2, "power_items")
        i == power_i_of(d2)
    IN  CASE st = "Survey:org" -> P_org
          [] st = "Survey:role" -> P_role
          [] st = "Survey:name" -> P_name
          [] st = "Survey:event_date" -> P_event_date
          [] st = "Survey:event_title" -> P_event_title
          [] st = "Survey:scene" -> P_scene
          [] st = "Survey:night_mount" -> P_night_mount
          [] st = "Survey:mount_who" -> P_mount_who
          [] st = "Survey:techs_count" -> P_techs_count_resume
          [] st = "Survey:extra_equipment" -> P_extra_equipment
          [] st = "Survey:plugs" -> P_plugs
          [] st = "Survey:power_type" -> P_power_type(d2)
          [] st = "Survey:power_count" ->
                P_power_count(IF i < Len(items) THEN items[i + 1].type ELSE <<>>)
          [] st = "Survey:power_where" ->
                IF i >= Len(items) THEN P_dimmer_needed
                ELSE IF Len(items[i + 1].where) > 0
                THEN P_power_where_left(items[i + 1].type,
                         IF items[i + 1].count - Len(items[i + 1].where) > 0
                         THEN items[i + 1].count - Len(items[i + 1].where) ELSE 0)
                ELSE P_power_where(items[i + 1].type)
          [] st = "Survey:dimmer_needed" -> P_dimmer_needed
          [] st = "Survey:dimmer_text" -> P_dimmer_text
          [] st = "Survey:sfx" -> P_sfx(d2)
          [] st = "Survey:sfx_other" -> P_sfx_other
          [] st = "Survey:operator" -> P_operator
          [] st = "Survey:console_help" -> P_console_help(d2)
          [] st = "Survey:console_model" -> P_console_model
          [] st = "Survey:phone" -> P_phone
          [] st = "Survey:confirm" -> P_confirm(d2)

\* the state m_resume leaves the dialogue in: lines 623 and 664-665
resume_state(st, d2) ==
    IF st = "Survey:power_where" /\ power_i_of(d2) >= Len(GetList(d2, "power_items"))
    THEN "Survey:dimmer_needed" ELSE st

\* main.py 608-704
m_resume(u) ==
    IF ~has_draft(db_drafts, u)
    THEN Notice(u, <<Msg(<<"no draft">>, kb_menu(u, FALSE))>>)
    ELSE LET row == get_draft(db_drafts, u)
             st == row.fsm_state
             d == SetDefault(SetDefault(json_loads(row.draft_json), "power_none", FALSE),
                             "sfx_none", FALSE)
             \* answers_text(d2) at line 701 writes sfx_list into the draft it renders
             d2 == IF st = "Survey:confirm" THEN answers_text_arg(d) ELSE d
         IN  /\ Fsm(u, resume_state(st, d), Upd(Cleared, [draft |-> d2]),
                    <<resume_prompt(st, d)>>)
             /\ Ask(u, IF resume_state(st, d) = st THEN at_pause[u].asked
                       ELSE resume_prompt(st, d))
             /\ DbUnchanged
             /\ UNCHANGED <<at_pause, inflight>>

-----------------------------------------------------------------------------
(* My answers and the edit dialogue: main.py 788-807 and 860-987 *)

\* main.py 788-795
m_my(u) ==
    IF ~has_last_submission(db_submissions, u)
    THEN Notice(u, <<Msg(<<"no answers">>, kb_menu(u, has_draft(db_drafts, u)))>>)
    ELSE Notice(u, <<Msg(<<"last survey:", NL, NL>>
                           \o answers_text(submission_to_dict(
                                  get_last_submission_by_user(db_submissions, u))),
                         kb_menu(u, has_draft(db_drafts, u)))>>)

EDIT_FIELDS ==
    << <<"org", <<"Organizaciya">> >>, <<"role", <<"Dolzhnost">> >>, <<"name", <<"Imya">> >>,
       <<"phone", <<"Telefon">> >>, <<"event_date", <<"Data">> >>,
       <<"event_title", <<"Nazvanie">> >>, <<"scene", <<"Scena">> >>,
       <<"night_mount", <<"Nochnoy montazh">> >>, <<"mount_who", <<"Kto montiruet">> >>,
       <<"techs_count", <<"Skolko tehnikov">> >>,
       <<"extra_equipment", <<"Dop. oborudovanie">> >>, <<"plugs", <<"Vilki">> >>,
       <<"power_block", <<"Silovye podklyucheniya">> >>,
       <<"dimmer_needed", <<"Dimmer nuzhen">> >>, <<"dimmer_text", <<"Dimmer: gde">> >>,
       <<"operator", <<"Kto vedet">> >>, <<"console_help", <<"Pomosch s pultom">> >>,
       <<"console_model", <<"Pult model">> >> >>

EDIT_OPTIONS ==
    {"scene", "night_mount", "mount_who", "extra_equipment", "dimmer_needed", "operator",
     "console_help"}

kb_edit_fields ==
    ReplyKb([i \in 1..Len(EDIT_FIELDS) |-> <<RB(EDIT_FIELDS[i][2])>>] \o << <<RB(BTN_BACK)>> >>)

kb_reply_options(options) ==
    ReplyKb([i \in 1..Len(options) |-> <<RB(options[i])>>] \o << <<RB(BTN_BACK)>> >>)

ReplyKeyboardRemove == [kind |-> "remove", rows |-> <<>>]

P_edit_pick == Msg(<<"what to change?">>, kb_edit_fields)

\* main.py 798-807
m_edit(u) ==
    IF ~has_last_submission(db_submissions, u)
    THEN Notice(u, <<Msg(<<"no answers yet">>, kb_menu(u, has_draft(db_drafts, u)))>>)
    ELSE /\ Fsm(u, "Edit:pick",
                Upd(Cleared, [edit_sub_id |-> get_last_submission_by_user(db_submissions, u)["id"]]),
                <<P_edit_pick>>)
         /\ Ask(u, NoMsg)
         /\ DbUnchanged
         /\ UNCHANGED <<at_pause, inflight>>

\* lines 868-871: the field key of a title, "" when there is none
edit_field_of(text) ==
    IF \E i \in 1..Len(EDIT_FIELDS) : EDIT_FIELDS[i][2] = text
    THEN EDIT_FIELDS[CHOOSE i \in 1..Len(EDIT_FIELDS) : EDIT_FIELDS[i][2] = text][1]
    ELSE ""

\* s.split(": ", 1) of a where entry: <<type, where>>
split_entry(s) ==
    LET n == FirstIndex(s, ": ")
    IN  <<SubSeq(s, 1, n - 1), SubSeq(s, n + 1, Len(s))>>

\* lines 885-891: the entries grouped by type, types in order of first appearance
RECURSIVE items_map(_, _)
items_map(entries, acc) ==
    IF entries = <<>> THEN acc
    ELSE IF ~InList(": ", Head(entries)) THEN items_map(Tail(entries), acc)
    ELSE LET tw == split_entry(Head(entries))
         IN  IF \E i \in 1..Len(acc) : acc[i].type = tw[1]
             THEN items_map(Tail(entries),
                      [i \in 1..Len(acc) |->
                          IF acc[i].type = tw[1]
                          THEN [acc[i] EXCEPT !.where = Append(@, tw[2]),
                                              !.count = @ + 1]
                          ELSE acc[i]])
             ELSE items_map(Tail(entries),
                      Append(acc, [type |-> tw[1], count |-> 1, where |-> <<tw[2]>>]))

edit_hint(field) ==
    <<"enter the new value">>
        \o (IF field = "event_date" THEN <<" (DD.MM.YYYY)">> ELSE <<>>)
        \o (IF field = "phone" THEN <<" (+7 999 123-45-67)">> ELSE <<>>)

\* main.py 860-914; the Back branch of lines 862-865 is m_back's (registered first)
edit_pick(u, text) ==
    /\ fsm_state[u] = "Edit:pick"
    /\ LET field == edit_field_of(text)
           sub_id == IF Has(fsm_data[u], "edit_sub_id") THEN fsm_data[u]["edit_sub_id"] ELSE 0
       IN  IF field = "" THEN Notice(u, <<Msg(<<"pick a field with a button">>, NoKb)>>)
           ELSE IF field = "power_block"
           THEN IF ~has_submission(db_submissions, sub_id)
                THEN /\ Leave(u, <<MenuMsg(u, has_draft(db_drafts, u))>>)
                     /\ DbUnchanged
                     /\ UNCHANGED <<at_pause, inflight>>
                ELSE LET row == get_submission(db_submissions, sub_id)
                         power_items ==
                             items_map(json_loads_list(row["power_where_json"]), <<>>)
                         power_types == ItemTypes(power_items)
                         q == Msg(<<"choose one or more and press next:">>,
                                  kb_power_types_multi(power_types, FALSE))
                     IN  Advance(u, "EditPower:power_type",
                                 Upd(fsm_data[u],
                                     [draft |-> [power_types |-> power_types,
                                                 power_items |-> power_items,
                                                 power_i |-> 0]]),
                                 q)
           ELSE /\ Fsm(u, "Edit:value", Upd(fsm_data[u], [edit_field |-> field]),
                       <<Msg(IF field \in EDIT_OPTIONS THEN <<"choose a value:">>
                             ELSE edit_hint(field),
                             IF field \in EDIT_OPTIONS
                             THEN kb_reply_options(SURVEY_OPTIONS[field])
                             ELSE ReplyKeyboardRemove)>>)
                /\ UNCHANGED asked
                /\ DbUnchanged
                /\ UNCHANGED <<at_pause, inflight>>

\* lines 940-959: the validated text, NONE when the value is rejected
\* an edit that takes every text as it is
edit_norm_any(field, txt) == txt

edit_norm(field, txt) ==
    IF field = "event_date" THEN norm_date(txt)
    ELSE IF field = "techs_count"
         THEN (IF int_pos(txt) <= 0 THEN NONE ELSE IntStr(int_pos(txt)))
    ELSE IF field = "phone" THEN norm_phone(txt)
    ELSE txt

edit_error(field) ==
    IF field = "event_date" THEN E_date
    ELSE IF field = "techs_count" THEN Msg(<<"enter a number > 0">>, NoKb)
    ELSE Msg(<<"enter a phone">>, NoKb)

\* a patch of the edited field alone
edit_patch_plain(field, txt) == [k \in {field} |-> txt]

\* lines 961-971: the patch before the folder is recomputed
edit_patch(field, txt) ==
    Upd(Upd(Upd(Upd([k \in {field} |-> txt],
        IF field = "extra_equipment" /\ txt = NET THEN [plugs |-> DASH] ELSE EmptyDict),
        IF field = "dimmer_needed" /\ txt = NET THEN [dimmer_text |-> DASH] ELSE EmptyDict),
        IF field = "operator" /\ StartsWith(txt, <<"Operator">>)
        THEN [console_help |-> DASH, console_model |-> DASH] ELSE EmptyDict),
        IF field = "console_help" /\ txt # OWN_CONSOLE
        THEN [console_model |-> DASH] ELSE EmptyDict)

\* lines 976-979: patch.get(k) or row[k]
edit_folder(row, patch) ==
    LET pick(k) == IF Has(patch, k) /\ patch[k] # <<>> THEN patch[k] ELSE row[k]
    IN  folder_for(pick("event_date"), pick("org"),
                   OrText(pick("event_title"), <<"Meropriyatie">>))

\* main.py 917-987.  folder_ok: the yd.ensure_folder calls of lines 980-981 return
edit_value(u, text, folder_ok) ==
    /\ fsm_state[u] = "Edit:value"
    /\ LET data == fsm_data[u]
           keyed == Has(data, "edit_sub_id") /\ Has(data, "edit_field")
           sub_id == data["edit_sub_id"]
           field == data["edit_field"]
           txt0 == Strip(OrEmpty(text))
           txt == edit_norm(field, txt0)
           patch0 == edit_patch(field, txt)
           refolder == field \in {"org", "event_date", "event_title"}
                          /\ has_submission(db_submissions, sub_id)
           new_folder == edit_folder(get_submission(db_submissions, sub_id), patch0)
           patch == IF refolder THEN Upd(patch0, [ydisk_folder |-> new_folder]) ELSE patch0
           ok == (DOMAIN patch) \cap Range(SubmissionCols) # {}
                    /\ has_submission(db_submissions, sub_id)
       IN  IF ~keyed
           THEN /\ Leave(u, <<MenuMsg(u, has_draft(db_drafts, u))>>)
                /\ DbUnchanged
           ELSE IF field \in EDIT_OPTIONS /\ ~InList(txt0, SURVEY_OPTIONS[field])
           THEN Notice(u, <<Msg(<<"choose a value with a button">>, NoKb)>>)
           ELSE IF field = "techs_count" /\ int_pos(txt0) < 0
           THEN Notice(u, <<>>)           \* the handler ends in the exception of int()
           ELSE IF field \in {"event_date", "techs_count", "phone"} /\ txt = NONE
           THEN Notice(u, <<edit_error(field)>>)
           ELSE IF refolder /\ ~folder_ok
           THEN UNCHANGED vars
           ELSE /\ db_users' = IF refolder
                               THEN upsert_user_last(db_users, u, sub_id, new_folder)
                               ELSE db_users
                /\ db_submissions' = update_submission(db_submissions, sub_id, patch)
                /\ Leave(u, <<Msg(IF ok THEN <<"updated">> ELSE <<"update failed">>,
                                  kb_menu(u, has_draft(db_drafts, u)))>>)
                /\ UNCHANGED <<db_drafts, db_seq, db_docs>>
    /\ UNCHANGED <<at_pause, inflight>>

\* main.py 1888-1890 (and 1549-1569, which never match a message): any other text
TextStates ==
    {"Survey:org", "Survey:role", "Survey:name", "Survey:event_date", "Survey:event_title",
     "Survey:techs_count", "Survey:plugs", "Survey:power_count", "Survey:dimmer_text",
     "Survey:sfx_other", "Survey:console_model", "Survey:phone", "EditPower:power_count",
     "Edit:pick", "Edit:value"}

-----------------------------------------------------------------------------
(* The administrator: main.py 199-205, 810-815, 1572-1801; db.py 228-246 *)

BTN_DEL == <<"Udalit anketu">>
BTN_DEL_OK == <<"[ok]", " ", "Udalit">>

kb_admin_menu ==
    ReplyKb(<< <<RB(<<"Ankety">>), RB(<<"Statistika">>)>>,
               <<RB(<<"Word ankety">>), RB(BTN_DEL)>>,
               <<RB(BTN_BACK)>> >>)

\* kb_months() of a day in January 2030
kb_months ==
    ReplyKb(<< <<RB(<<"<", " ", "2", "0", "2", "9", "-", "1", "2">>),
                 RB(<<"[ok]", " ", "2", "0", "3", "0", "-", "0", "1">>),
                 RB(<<">", " ", "2", "0", "3", "0", "-", "0", "2">>)>>,
               <<RB(BTN_BACK)>> >>)

AdminDelStates == {"AdminDel:pick_month", "AdminDel:pick_form", "AdminDel:confirm"}

\* the match of (\d{4})-(\d{2}) at position i of s
MonthAt(s, i) ==
    /\ i + 6 <= Len(s)
    /\ \A j \in i..(i + 3) : s[j] \in Digit
    /\ s[i + 4] = "-"
    /\ s[i + 5] \in Digit /\ s[i + 6] \in Digit

\* main.py 1606-1615: <<year, month>>, or <<>> for None
parse_month_btn(text) ==
    LET s == Strip(OrEmpty(text))
    IN  IF \E i \in 1..Len(s) : MonthAt(s, i)
        THEN LET i == CHOOSE k \in 1..Len(s) :
                          MonthAt(s, k) /\ \A j \in 1..(k - 1) : ~MonthAt(s, j)
                 y == ParseInt(SubSeq(s, i, i + 3))
                 mm == ParseInt(SubSeq(s, i + 5, i + 6))
             IN  IF mm < 1 \/ mm > 12 THEN <<>> ELSE <<y, mm>>
        ELSE <<>>

\* substr(s, a, n) of SQLite for a >= 1
Substr(s, a, n) ==
    IF a > Len(s) THEN <<>>
    ELSE SubSeq(s, a, IF a + n - 1 < Len(s) THEN a + n - 1 ELSE Len(s))

\* the order of two characters of a date
DateOrd(c) == IF c \in Digit THEN DigitVal(c) + 1 ELSE 0

DateLess(a, b) ==
    \/ \E i \in 1..Len(a) :
          /\ i <= Len(b)
          /\ \A j \in 1..(i - 1) : a[j] = b[j]
          /\ DateOrd(a[i]) < DateOrd(b[i])
    \/ Len(a) < Len(b) /\ SubSeq(b, 1, Len(a)) = a

\* ORDER BY event_date ASC, id ASC
RowBefore(r1, r2) ==
    \/ DateLess(r1["event_date"], r2["event_date"])
    \/ r1["event_date"] = r2["event_date"] /\ r1["id"] < r2["id"]

\* db.py 228-241
list_submissions_by_month(tbl, year, month) ==
    LET mm == IF month < 10 THEN <<"0">> \o IntStr(month) ELSE IntStr(month)
        rows == SelectSeq(tbl, LAMBDA r : /\ Substr(r["event_date"], 4, 2) = mm
                                          /\ Substr(r["event_date"], 7, 4) = IntStr(year))
        sorted == [k \in 1..Len(rows) |->
                     rows[CHOOSE i \in 1..Len(rows) :
                            Cardinality({j \in 1..Len(rows) : RowBefore(rows[j], rows[i])})
                               = k - 1]]
    IN  SubSeq(sorted, 1, IF Len(sorted) < 200 THEN Len(sorted) ELSE 200)

\* db.py 243-246
delete_submission(tbl, sub_id) == SelectSeq(tbl, LAMBDA r : r["id"] # sub_id)

\* ON DELETE SET NULL of docs.submission_id: db.py 86, with foreign_keys=ON (21)
unlink_docs(tbl, sub_id) ==
    [i \in 1..Len(tbl) |->
        IF tbl[i].submission_id = sub_id
        THEN [tbl[i] EXCEPT !.submission_id = 0] ELSE tbl[i]]    \* 0: NULL

\* main.py 1618-1624
form_title(r) ==
    LET t == <<"#">> \o IntStr(r["id"]) \o <<" ">> \o r["event_date"] \o <<" ", "|", " ">>
                 \o r["org"] \o <<" ", "|", " ">> \o r["event_title"]
    IN  SubSeq(t, 1, IF Len(t) < 120 THEN Len(t) ELSE 120)

kb_forms_list(rows) ==
    ReplyKb([i \in 1..Len(rows) |-> <<RB(form_title(rows[i]))>>] \o << <<RB(BTN_BACK)>> >>)

AdminMenuMsg == Msg(<<"admin menu:">>, kb_admin_menu)

\* main.py 810-815
m_admin(u) ==
    IF ~is_admin(u)
    THEN Notice(u, <<>>)
    ELSE /\ Leave(u, <<AdminMenuMsg>>)
         /\ DbUnchanged
         /\ UNCHANGED <<at_pause, inflight>>

\* main.py 1700-1706; the handlers of the text states are registered before it
a_del_start(u) ==
    /\ fsm_state[u] \notin TextStates
    /\ IF ~is_admin(u)
       THEN Notice(u, <<>>)
       ELSE /\ Fsm(u, "AdminDel:pick_month", Cleared,
                   <<Msg(<<"choose the month to delete from:">>, kb_months)>>)
            /\ Ask(u, NoMsg)
            /\ DbUnchanged
            /\ UNCHANGED <<at_pause, inflight>>

\* main.py 1709-1730
a_del_pick_month(u, text) ==
    /\ fsm_state[u] = "AdminDel:pick_month"
    /\ LET ym == parse_month_btn(OrEmpty(text))
           rows == list_submissions_by_month(db_submissions, ym[1], ym[2])
       IN  IF ~is_admin(u)
           THEN Notice(u, <<>>)
           ELSE IF text = BTN_BACK
           THEN /\ Leave(u, <<AdminMenuMsg>>)
                /\ DbUnchanged
                /\ UNCHANGED <<at_pause, inflight>>
           ELSE IF ym = <<>>
           THEN Notice(u, <<Msg(<<"choose the month with a button">>, kb_months)>>)
           ELSE IF rows = <<>>
           THEN Notice(u, <<Msg(<<"no forms in this month">>, kb_months)>>)
           ELSE /\ Fsm(u, "AdminDel:pick_form", fsm_data[u],
                       <<Msg(<<"choose the form to delete:">>, kb_forms_list(rows))>>)
                /\ DbUnchanged
                /\ UNCHANGED <<asked, at_pause, inflight>>

\* the match of ^#(\d+): the number after the sign, -1 without a match
form_id_of(text) ==
    LET s == Strip(OrEmpty(text))
    IN  IF Len(s) >= 2 /\ s[1] = "#" /\ s[2] \in Digit
        THEN LET e == CHOOSE k \in 2..Len(s) :
                          /\ \A j \in 2..k : s[j] \in Digit
                          /\ k = Len(s) \/ s[k + 1] \notin Digit
             IN  ParseInt(SubSeq(s, 2, e))
        ELSE -1

\* main.py 1733-1765
a_del_pick_form(u, text) ==
    /\ fsm_state[u] = "AdminDel:pick_form"
    /\ LET sub_id == form_id_of(text)
       IN  IF ~is_admin(u)
           THEN Notice(u, <<>>)
           ELSE IF text = BTN_BACK
           THEN /\ Fsm(u, "AdminDel:pick_month", fsm_data[u],
                       <<Msg(<<"choose the month:">>, kb_months)>>)
                /\ DbUnchanged
                /\ UNCHANGED <<asked, at_pause, inflight>>
           ELSE IF sub_id < 0
           THEN Notice(u, <<Msg(<<"choose the form with a button">>, NoKb)>>)
           ELSE IF ~has_submission(db_submissions, sub_id)
           THEN Notice(u, <<Msg(<<"not found">>, NoKb)>>)
           ELSE LET sub == get_submission(db_submissions, sub_id)
                IN  /\ Fsm(u, "AdminDel:confirm", Upd(fsm_data[u], [del_sub_id |-> sub_id]),
                           <<Msg(<<"delete the form?", NL, NL>> \o form_title(sub)
                                    \o <<NL, "folder: ">> \o sub["ydisk_folder"],
                                 ReplyKb(<< <<RB(BTN_DEL_OK), RB(BTN_BACK)>> >>))>>)
                    /\ DbUnchanged
                    /\ UNCHANGED <<asked, at_pause, inflight>>

\* a confirmation that keeps the record when the remote deletion fails
a_del_confirm_remote_first(u, text, yd_ok) ==
    /\ fsm_state[u] = "AdminDel:confirm"
    /\ is_admin(u) /\ text = BTN_DEL_OK /\ Has(fsm_data[u], "del_sub_id")
    /\ LET sub_id == fsm_data[u]["del_sub_id"]
           ok == yd_ok /\ has_submission(db_submissions, sub_id)
       IN  /\ db_submissions' = IF yd_ok THEN delete_submission(db_submissions, sub_id)
                                ELSE db_submissions
           /\ db_docs' = IF yd_ok THEN unlink_docs(db_docs, sub_id) ELSE db_docs
           /\ Leave(u, <<Msg(IF ok THEN <<"deleted">> ELSE <<"not found">>, kb_admin_menu)>>)
           /\ UNCHANGED <<db_drafts, db_seq, db_users, at_pause, inflight>>

\* main.py 1768-1801.  yd_ok: the yd.delete call of line 1794 returns
a_del_confirm(u, text, yd_ok) ==
    /\ fsm_state[u] = "AdminDel:confirm"
    /\ LET sub_id == IF Has(fsm_data[u], "del_sub_id") THEN fsm_data[u]["del_sub_id"] ELSE 0
           ok == has_submission(db_submissions, sub_id)
       IN  IF ~is_admin(u)
           THEN Notice(u, <<>>)
           ELSE IF text = BTN_BACK
           THEN /\ Fsm(u, "AdminDel:pick_month", fsm_data[u],
                       <<Msg(<<"choose the month:">>, kb_months)>>)
                /\ DbUnchanged
                /\ UNCHANGED <<asked, at_pause, inflight>>
           ELSE IF text # BTN_DEL_OK
           THEN Notice(u, <<Msg(<<"press delete or back">>, NoKb)>>)
           ELSE IF sub_id = 0
           THEN /\ Leave(u, <<AdminMenuMsg>>)
                /\ DbUnchanged
                /\ UNCHANGED <<at_pause, inflight>>
           ELSE \* the exception of yd.delete is caught and dropped: lines 1793-1797
                /\ db_submissions' = delete_submission(db_submissions, sub_id)
                /\ db_docs' = unlink_docs(db_docs, sub_id)
                /\ Leave(u, <<Msg(IF ok THEN <<"deleted">> ELSE <<"not found">>,
                                  kb_admin_menu)>>)
                /\ UNCHANGED <<db_drafts, db_seq, db_users, at_pause, inflight>>

\* main.py 737-748 and 774-785.  COMMON_DL_MAP and SUB_DL_MAP are read by
\* these handlers alone: known says whether the token of the press is in the
\* map, got what download_and_send (main.py 553-563) ends with
DlOutcomes == {"nolink", "error", "file"}

dl_token(u, known, got) ==
    IF ~known
    THEN UNCHANGED vars                 \* the alert "the button is out of date"
    ELSE Notice(u, CASE got = "nolink" -> <<Msg(<<"no download link">>, NoKb)>>
                     [] got = "file" -> <<Msg(<<"<file>">>, NoKb)>>
                     [] OTHER -> <<>>)

dl_common(u, known, got) == dl_token(u, known, got)
dl_submission_file(u, known, got) == dl_token(u, known, got)

\* lines 1549-1569: the states named by the two filters
InlineOnlyStates ==
    {"Survey:scene", "Survey:night_mount", "Survey:mount_who", "Survey:extra_equipment",
     "Survey:dimmer_needed", "Survey:operator", "Survey:console_help", "Survey:sfx"}

E_buttons == Msg(<<"choose an option with the buttons above">>, NoKb)
E_buttons_many == Msg(<<"choose the options with the buttons above">>, NoKb)

\* F.state.in_(states) as a message filter: the filter is resolved on the
\* Message, which has no attribute state, so it rejects every message
StateFilter(st, states) == FALSE

\* the handlers a text reaches when no earlier handler took it, in the order of
\* their registration: inline_only_text, inline_power_type_text, fallback
fallback(u) ==
    /\ fsm_state[u] \notin TextStates \cup AdminDelStates
    /\ IF StateFilter(fsm_state[u], InlineOnlyStates)
       THEN Notice(u, <<E_buttons>>)
       ELSE IF StateFilter(fsm_state[u], PtStates)
       THEN Notice(u, <<E_buttons_many>>)
       ELSE Notice(u, <<MenuMsg(u, has_draft(db_drafts, u))>>)

-----------------------------------------------------------------------------
(* The bot: main.py 1893-1900.  Updates are handled one at a time. *)

PtData == {<<"pt", ":", "none">>, <<"pt", ":", "done">>}
             \cup {<<"pt", ":", "opt", ":">> \o IntStr(i) : i \in PressedPower}
SxData == {<<"sx", ":", "none">>, <<"sx", ":", "done">>}
             \cup {<<"sx", ":", "opt", ":">> \o IntStr(i) : i \in PressedSfx}
AnsFields ==
    {"scene", "night_mount", "mount_who", "extra_equipment", "power_where",
     "dimmer_needed", "operator", "console_help", "confirm"}
AnsPressed == UNION {{AnsData(f, i) : i \in Pressed(f)} : f \in AnsFields}

\* the further locations pressed: while the pass has a single power item, its
\* connections are placed at any of the first NWhereOpts locations
WherePressed(u) ==
    IF Len(GetList(draft_get(fsm_data[u]), "power_items")) = 1
    THEN {AnsData("power_where", i) : i \in 1..(NWhereOpts - 1)}
    ELSE {}

Users == {1}

\* every chat the bot talks to: the users of the survey and the administrators
Chats == Users \cup ADMIN_IDS

\* the last submission of uid can be updated once more
EditsLeft(uid) ==
    has_last_submission(db_submissions, uid)
        => get_last_submission_by_user(db_submissions, uid)["updated_at"] < MaxEdits

EditPicks == {<<"Silovye podklyucheniya">>, <<"Telefon">>, <<"hello">>}
IN_edit == IN_phone

Init ==
    /\ fsm_state = [u \in Chats |-> NoState]
    /\ fsm_data = [u \in Chats |-> Cleared]
    /\ db_drafts = <<>>
    /\ db_submissions = <<>>
    /\ db_seq = 0
    /\ db_users = <<>>
    /\ db_docs = <<>>
    /\ sent = [u \in Chats |-> <<>>]
    /\ asked = [u \in Chats |-> NoMsg]
    /\ at_pause = [u \in Chats |-> NoPause]
    /\ inflight = [u \in Chats |-> <<>>]

Next ==
    \E u \in Users :
        \/ db_seq < MaxSubs /\ m_survey(u)
        \/ db_seq < MaxSubs /\ m_new(u)
        \/ m_resume(u)
        \/ m_my(u)
        \/ EditsLeft(u) /\ m_edit(u)
        \/ m_back(u)
        \/ survey_pause_reply(u)
        \/ \E text \in EditPicks : edit_pick(u, text)
        \/ \E text \in IN_edit, folder_ok \in BOOLEAN : edit_value(u, text, folder_ok)
        \/ s_org(u)
        \/ s_role(u)
        \/ s_name(u)
        \/ s_date(u)
        \/ s_event_title(u)
        \/ s_techs(u)
        \/ s_plugs(u)
        \/ s_power_count(u)
        \/ s_dimmer_text(u)
        \/ s_sfx_other(u)
        \/ s_phone(u)
        \/ s_console_model(u)
        \/ ep_power_count(u)
        \/ \E data \in PtData : power_types_cb(u, data)
        \/ \E data \in SxData : sfx_cb(u, data)
        \/ \E data \in AnsPressed : s_inline(u, data)
        \/ \E data \in WherePressed(u) : s_inline_power_where(u, data)
        \/ fallback(u)

Spec == Init /\ [][Next]_vars

-----------------------------------------------------------------------------
(* Two more explorations of the same handlers, with every connection placed at
   the first location.  SpecBranches presses every branch of the single-choice
   questions and one power type; SpecSfx presses two special effects. *)

PressedBranches(field) ==
    CASE field = "scene" -> {0}
      [] field = "night_mount" -> {0}
      [] field = "mount_who" -> {0}
      [] field = "extra_equipment" -> {0, 1}
      [] field = "power_where" -> {0}
      [] field = "dimmer_needed" -> {0, 1}
      [] field = "operator" -> {0, 1}
      [] field = "console_help" -> {0, 2}
      [] field = "confirm" -> {0, 1}

PtDataOne == {<<"pt", ":", "none">>, <<"pt", ":", "done">>, <<"pt", ":", "opt", ":", "1">>}
SxDataTwo ==
    {<<"sx", ":", "none">>, <<"sx", ":", "done">>,
     <<"sx", ":", "opt", ":", "1">>, <<"sx", ":", "opt", ":", "5">>}
AnsPressedBranches == UNION {{AnsData(f, i) : i \in PressedBranches(f)} : f \in AnsFields}

NextBranches ==
    \E u \in Users :
        \/ db_seq < MaxSubs /\ m_survey(u)
        \/ db_seq < MaxSubs /\ m_new(u)
        \/ m_resume(u)
        \/ m_my(u)
        \/ EditsLeft(u) /\ m_edit(u)
        \/ m_back(u)
        \/ survey_pause_reply(u)
        \/ \E text \in EditPicks : edit_pick(u, text)
        \/ \E text \in IN_edit, folder_ok \in BOOLEAN : edit_value(u, text, folder_ok)
        \/ s_org(u)
        \/ s_role(u)
        \/ s_name(u)
        \/ s_date(u)
        \/ s_event_title(u)
        \/ s_techs(u)
        \/ s_plugs(u)
        \/ s_power_count(u)
        \/ s_dimmer_text(u)
        \/ s_sfx_other(u)
        \/ s_phone(u)
        \/ s_console_model(u)
        \/ ep_power_count(u)
        \/ \E data \in PtDataOne : power_types_cb(u, data)
        \/ \E data \in SxData : sfx_cb(u, data)
        \/ \E data \in AnsPressedBranches : s_inline(u, data)
        \/ fallback(u)

SpecBranches == Init /\ [][NextBranches]_vars

NextSfx ==
    \E u \in Users :
        \/ db_seq < MaxSubs /\ m_survey(u)
        \/ db_seq < MaxSubs /\ m_new(u)
        \/ m_resume(u)
        \/ m_my(u)
        \/ EditsLeft(u) /\ m_edit(u)
        \/ m_back(u)
        \/ survey_pause_reply(u)
        \/ \E text \in EditPicks : edit_pick(u, text)
        \/ \E text \in IN_edit, folder_ok \in BOOLEAN : edit_value(u, text, folder_ok)
        \/ s_org(u)
        \/ s_role(u)
        \/ s_name(u)
        \/ s_date(u)
        \/ s_event_title(u)
        \/ s_techs(u)
        \/ s_plugs(u)
        \/ s_power_count(u)
        \/ s_dimmer_text(u)
        \/ s_sfx_other(u)
        \/ s_phone(u)
        \/ s_console_model(u)
        \/ ep_power_count(u)
        \/ \E data \in PtData : power_types_cb(u, data)
        \/ \E data \in SxDataTwo : sfx_cb(u, data)
        \/ \E data \in AnsPressed : s_inline(u, data)
        \/ fallback(u)

SpecSfx == Init /\ [][NextSfx]_vars

(* The edit menu explored in full: after a pass that is never paused, every
   field of the menu is picked and every text of IN_edit_all is sent as its
   new value, a message without text (NONE) included. *)
EditPicksAll == {EDIT_FIELDS[i][2] : i \in 1..Len(EDIT_FIELDS)} \cup {<<"hello">>}

IN_edit_all ==
    {<<"New">>, NONE, <<"4">>, <<"0">>, <<"sup2">>,
     <<"0", "2", ".", "0", "2", ".", "2", "0", "3", "1">>,
     <<"2", "9", ".", "0", "2", ".", "2", "0", "2", "1">>}
        \cup IN_phone
        \cup UNION {Range(SURVEY_OPTIONS[f]) : f \in EDIT_OPTIONS}

NextEdit ==
    \E u \in Users :
        \/ db_seq < MaxSubs /\ m_survey(u)
        \/ m_my(u)
        \/ EditsLeft(u) /\ m_edit(u)
        \/ m_back(u)
        \/ \E text \in EditPicksAll : edit_pick(u, text)
        \/ \E text \in IN_edit_all, folder_ok \in BOOLEAN : edit_value(u, text, folder_ok)
        \/ s_org(u)
        \/ s_role(u)
        \/ s_name(u)
        \/ s_date(u)
        \/ s_event_title(u)
        \/ s_techs(u)
        \/ s_plugs(u)
        \/ s_power_count(u)
        \/ s_dimmer_text(u)
        \/ s_sfx_other(u)
        \/ s_phone(u)
        \/ s_console_model(u)
        \/ ep_power_count(u)
        \/ \E data \in PtDataOne : power_types_cb(u, data)
        \/ \E data \in SxData : sfx_cb(u, data)
        \/ \E data \in AnsPressed : s_inline(u, data)
        \/ fallback(u)

SpecEdit == Init /\ [][NextEdit]_vars

\* The summary as a function of the answers: answers_text over answer sets
\* with every combination of the four power keys it reads.
RenderTypes == {<<>>, <<SURVEY_OPTIONS["power_type"][2]>>, <<SURVEY_OPTIONS["power_type"][2], SURVEY_OPTIONS["power_type"][3]>>}
RenderWhere == {<<>>, <<WhereEntry(SURVEY_OPTIONS["power_type"][2], <<"Stage">>)>>}
RenderPowerType == {<<>>, NET, DASH, <<"0">>, SURVEY_OPTIONS["power_type"][2]}
RenderOrg == {<<>>, <<"O", "r", "g">>}

RenderInputs ==
    {[power_types |-> ts, power_items |-> NewItems(is), power_type |-> pt,
      power_where_list |-> pw, org |-> o] :
        ts \in RenderTypes, is \in RenderTypes, pt \in RenderPowerType,
        pw \in RenderWhere, o \in RenderOrg}

InitRender ==
    /\ fsm_state = [u \in Chats |-> NoState]
    /\ fsm_data \in {[u \in Chats |-> [draft |-> a]] : a \in RenderInputs}
    /\ db_drafts = <<>>
    /\ db_submissions = <<>>
    /\ db_seq = 0
    /\ db_users = <<>>
    /\ db_docs = <<>>
    /\ sent = [u \in Chats |-> <<>>]
    /\ asked = [u \in Chats |-> NoMsg]
    /\ at_pause = [u \in Chats |-> NoPause]
    /\ inflight = [u \in Chats |-> <<>>]

\* the summary of the answers, sent as one message
render_answers(u) ==
    /\ sent' = [sent EXCEPT ![u] = <<Msg(answers_text(draft_get(fsm_data[u])), NoKb)>>]
    /\ DbUnchanged
    /\ UNCHANGED <<fsm_state, fsm_data, asked, at_pause, inflight>>

NextRender == \E u \in Users : render_answers(u)

SpecRender == InitRender /\ [][NextRender]_vars

\* Rendering the console model: the answers about the console range over
\* every combination of operator, console help, scene and stored model
ConsoleOperators == {<<>>, SURVEY_OPTIONS["operator"][1], OPERATOR_M12}
ConsoleHelps == {DASH, SURVEY_OPTIONS["console_help"][1], OWN_CONSOLE}
ConsoleScenes == {SURVEY_OPTIONS["scene"][1], SURVEY_OPTIONS["scene"][2]}
ConsoleModels == {<<>>, DASH, <<"Avolites">>}

ConsoleInputs ==
    {[operator |-> o, console_help |-> h, scene |-> s, console_model |-> m,
      power_types |-> <<>>, power_items |-> <<>>, power_type |-> NET,
      power_where_list |-> <<>>] :
        o \in ConsoleOperators, h \in ConsoleHelps, s \in ConsoleScenes,
        m \in ConsoleModels}

InitConsole ==
    /\ fsm_state = [u \in Chats |-> NoState]
    /\ fsm_data \in {[u \in Chats |-> [draft |-> a]] : a \in ConsoleInputs}
    /\ db_drafts = <<>>
    /\ db_submissions = <<>>
    /\ db_seq = 0
    /\ db_users = <<>>
    /\ db_docs = <<>>
    /\ sent = [u \in Chats |-> <<>>]
    /\ asked = [u \in Chats |-> NoMsg]
    /\ at_pause = [u \in Chats |-> NoPause]
    /\ inflight = [u \in Chats |-> <<>>]

\* main.py 483-486: a cell of the document's table
docx_cell(a) == IF Strip(a) = <<>> THEN DASH ELSE a

\* main.py 528 after 1517-1526: the document's row of the console model,
\* built from the answers of the chat
build_docx_for_submission(u) ==
    /\ sent' = [sent EXCEPT ![u] =
                    <<Msg(<<"20 console", ": ">>
                            \o docx_cell(docx_console_model(draft_get(fsm_data[u]))),
                          NoKb)>>]
    /\ DbUnchanged
    /\ UNCHANGED <<fsm_state, fsm_data, asked, at_pause, inflight>>

NextConsole ==
    \/ \E u \in Users : render_answers(u)
    \/ \E u \in Users : build_docx_for_submission(u)

SpecConsole == InitConsole /\ [][NextConsole]_vars

\* The date step explored in full: the texts sent at the date step are the
\* dates of every day, month and year below, well-formed or not, and texts of
\* other shapes
\* the characters of a two- or four-digit numeral
Chars2(n) == <<DigitChr(n \div 10), DigitChr(n % 10)>>
Chars4(n) == Chars2(n \div 100) \o Chars2(n % 100)

DateDayNums == {0, 1, 15, 28, 29, 30, 31, 32}
DateMonthNums == {0, 1, 2, 4, 12, 13}
DateYearNums == {0, 1900, 2000, 2021, 2024, 2030, 9999}

DateText(d, m, y) == Chars2(d) \o <<".">> \o Chars2(m) \o <<".">> \o Chars4(y)

D_29_02_2021 == DateText(29, 2, 2021)
D_01_01_2030 == DateText(1, 1, 2030)

DateInputs ==
    {DateText(d, m, y) : d \in DateDayNums, m \in DateMonthNums, y \in DateYearNums}
        \cup {NONE, <<>>,
              <<" ">> \o D_01_01_2030 \o <<" ">>,
              <<"1", ".", "1", ".", "2", "0", "3", "0">>,
              <<"0", "1", "/", "0", "1", "/", "2", "0", "3", "0">>,
              <<"2", "0", "3", "0", ".", "0", "1", ".", "0", "1">>,
              <<"0", "1", ".", "0", "1", ".", "3", "0">>,
              <<"0", "1", ".", "0", "1", ".", "2", "0", "3", "0", "1">>,
              <<"t", "o", "m", "o", "r", "r", "o", "w">>}

NextDate ==
    \E u \in Users :
        \/ m_survey(u)
        \/ s_org(u)
        \/ s_role(u)
        \/ s_name(u)
        \/ \E text \in DateInputs : s_date_text(u, text)

SpecDate == Init /\ [][NextDate]_vars

\* The administrator next to a user: the user fills in, commits and edits a
\* survey, the administrator deletes it; both press download buttons.
IN_month ==
    {<<"[ok]", " ", "2", "0", "3", "0", "-", "0", "1">>,
     <<">", " ", "2", "0", "3", "1", "-", "0", "2">>,
     <<"2", "0", "3", "0", "-", "1", "3">>, <<"hello">>, NONE}
IN_form == {<<"#", "1", " ", "0", "1">>, <<"#", "2">>, <<"hello">>, NONE}
IN_del == {BTN_DEL_OK, <<"hello">>, NONE}

(* The dependent fields explored: a pass that takes either branch at the
   extra equipment, the dimmer, the operator and the console help, followed by
   an edit of an enabling or of a dependent field. *)
EditPicksDeps ==
    {<<"Dop. oborudovanie">>, <<"Vilki">>, <<"Dimmer nuzhen">>, <<"Dimmer: gde">>,
     <<"Kto vedet">>, <<"Pomosch s pultom">>, <<"Pult model">>,
     <<"Silovye podklyucheniya">>}

IN_edit_deps ==
    {<<"New">>}
        \cup UNION {Range(SURVEY_OPTIONS[f]) :
                        f \in {"extra_equipment", "dimmer_needed", "operator", "console_help"}}

NextDeps ==
    \E u \in Users :
        \/ db_seq < MaxSubs /\ m_survey(u)
        \/ EditsLeft(u) /\ m_edit(u)
        \/ \E text \in EditPicksDeps : edit_pick(u, text)
        \/ \E text \in IN_edit_deps : edit_value(u, text, TRUE)
        \/ s_org(u)
        \/ s_role(u)
        \/ s_name(u)
        \/ s_date(u)
        \/ s_event_title(u)
        \/ s_techs(u)
        \/ s_plugs(u)
        \/ s_power_count(u)
        \/ s_dimmer_text(u)
        \/ s_sfx_other(u)
        \/ s_phone(u)
        \/ s_console_model(u)
        \/ ep_power_count(u)
        \/ \E data \in PtDataOne : power_types_cb(u, data)
        \/ \E data \in SxData : sfx_cb(u, data)
        \/ \E data \in AnsPressedBranches : s_inline(u, data)

SpecDeps == Init /\ [][NextDeps]_vars

(* The power loop with a user who goes on: no pause, no menu button inside a
   dialogue; a valid count and a placement press are sent whenever the dialogue
   waits for one. *)
NextLive ==
    \E u \in Users :
        \/ fsm_state[u] = NoState /\ db_seq < MaxSubs /\ m_survey(u)
        \/ fsm_state[u] = NoState /\ EditsLeft(u) /\ m_edit(u)
        \/ edit_pick(u, <<"Silovye podklyucheniya">>)
        \/ s_org(u)
        \/ s_role(u)
        \/ s_name(u)
        \/ s_date(u)
        \/ s_event_title(u)
        \/ s_techs(u)
        \/ s_plugs(u)
        \/ s_power_count(u)
        \/ s_dimmer_text(u)
        \/ s_sfx_other(u)
        \/ s_phone(u)
        \/ s_console_model(u)
        \/ ep_power_count(u)
        \/ \E data \in PtData : power_types_cb(u, data)
        \/ \E data \in SxData : sfx_cb(u, data)
        \/ \E data \in AnsPressed : s_inline(u, data)

\* the user sends a count that is accepted
CountAccepted(u) ==
    (s_power_count(u) \/ ep_power_count(u)) /\ fsm_state'[u] # fsm_state[u]

\* the user presses a location
PlacementPressed(u) == s_inline_power_where(u, AnsData("power_where", 0))

SpecLive ==
    /\ Init /\ [][NextLive]_vars
    /\ \A u \in Users : WF_vars(CountAccepted(u)) /\ WF_vars(PlacementPressed(u))

(* Concurrent dispatch: main.py 1893-1900.  Dispatcher() has no event
   isolation and start_polling handles every update as a task of its own, so a
   handler of a chat can start while another one of the same chat is suspended
   in an awaited call.  The commit is split at its first awaited collaborator
   call, the folder creation (1495-1497). *)
MaxInflight == 2    \* commit handlers of one chat suspended at the same time

\* lines 1462-1494: the handler passes the state check, reads the draft and
\* suspends in yd.ensure_folder
s_inline_commit_begin(u, data) ==
    /\ cb_field(data) = "confirm" /\ fsm_state[u] = "Survey:confirm"
    /\ ~StartsWith(cb_value(data), <<"[again]">>)
    /\ Len(inflight[u]) < MaxInflight
    /\ inflight' = [inflight EXCEPT ![u] =
                        Append(@, commit_d2(draft_get(fsm_data[u])))]
    /\ UNCHANGED <<fsm_state, fsm_data, db_drafts, db_submissions, db_seq,
                   db_users, db_docs, sent, asked, at_pause>>

\* lines 1495-1544: the k-th suspended handler resumes.  folder_ok: both
\* yd.ensure_folder calls return; doc_ok: the docx is built and uploaded
s_inline_commit_end(u, k, folder_ok, doc_ok) ==
    /\ k \in 1..Len(inflight[u])
    /\ LET d2 == inflight[u][k]
           payload == commit_payload(d2)
           sub_id == db_seq + 1
           folder == payload["ydisk_folder"]
           fname == sanitize_name(docx_name(sub_id, payload))
       IN  /\ inflight' = [inflight EXCEPT ![u] =
                               SubSeq(@, 1, k - 1) \o SubSeq(@, k + 1, Len(@))]
           /\ IF ~folder_ok
              THEN UNCHANGED <<fsm_state, fsm_data, db_drafts, db_submissions, db_seq,
                               db_users, db_docs, sent, asked, at_pause>>
              ELSE /\ db_submissions' =
                        Append(db_submissions, insert_submission(sub_id, u, payload))
                   /\ db_seq' = sub_id
                   /\ db_users' = upsert_user_last(db_users, u, sub_id, folder)
                   /\ db_drafts' = delete_draft(db_drafts, u)
                   /\ db_docs' = IF doc_ok
                                 THEN save_doc(db_docs, u, sub_id, fname,
                                               folder \o <<"/">> \o fname)
                                 ELSE db_docs
                   /\ Leave(u, <<Msg(THANKS, kb_menu(u, FALSE)),
                                 Msg(<<"survey saved">>, kb_menu(u, FALSE))>>)
                   /\ at_pause' = [at_pause EXCEPT ![u] = NoPause]

\* one pass of the survey whose confirm step is accepted by presses that the
\* dispatcher handles concurrently; no pass is started while a commit is
\* suspended
NextRace ==
    \E u \in Users :
        \/ db_seq < MaxSubs /\ inflight[u] = <<>> /\ m_survey(u)
        \/ s_org(u)
        \/ s_role(u)
        \/ s_name(u)
        \/ s_date(u)
        \/ s_event_title(u)
        \/ s_techs(u)
        \/ s_plugs(u)
        \/ s_power_count(u)
        \/ s_dimmer_text(u)
        \/ s_sfx_other(u)
        \/ s_phone(u)
        \/ s_console_model(u)
        \/ \E data \in PtDataOne : power_types_cb(u, data)
        \/ \E data \in SxData : sfx_cb(u, data)
        \/ \E data \in AnsPressed :
              \/ s_inline_scene(u, data)
              \/ s_inline_night_mount(u, data)
              \/ s_inline_mount_who(u, data)
              \/ s_inline_extra_equipment(u, data)
              \/ s_inline_power_where(u, data)
              \/ s_inline_dimmer_needed(u, data)
              \/ s_inline_operator(u, data)
              \/ s_inline_console_help(u, data)
              \/ s_inline_restart(u, data)
              \/ s_inline_commit_begin(u, data)
        \/ \E k \in 1..MaxInflight, folder_ok, doc_ok \in BOOLEAN :
              s_inline_commit_end(u, k, folder_ok, doc_ok)

SpecRace == Init /\ [][NextRace]_vars

(* Two users at once: every chat takes the survey, pauses, resumes and edits
   its Submission, in any interleaving of whole handlers. *)
PtDataNone == {<<"pt", ":", "none">>, <<"pt", ":", "done">>}
SxDataNone == {<<"sx", ":", "none">>, <<"sx", ":", "done">>}

\* the steps at which pause is pressed in this exploration
PausedAt == {"Survey:role", "Survey:confirm"}

\* a survey or edit event of user u
UserEvent(u) ==
        \/ fsm_state[u] = NoState /\ ~has_last_submission(db_submissions, u) /\ m_survey(u)
        \/ fsm_state[u] = NoState /\ m_resume(u)
        \/ fsm_state[u] \in PausedAt /\ survey_pause_reply(u)
        \/ fsm_state[u] = NoState /\ EditsLeft(u) /\ m_edit(u)
        \/ edit_pick(u, <<"Organizaciya">>)
        \/ edit_value(u, <<"New">>, TRUE)
        \/ s_org(u)
        \/ s_role(u)
        \/ s_name(u)
        \/ s_date(u)
        \/ s_event_title(u)
        \/ s_techs(u)
        \/ s_plugs(u)
        \/ s_dimmer_text(u)
        \/ s_phone(u)
        \/ s_console_model(u)
        \/ \E data \in PtDataNone : power_types_cb(u, data)
        \/ \E data \in SxDataNone : sfx_cb(u, data)
        \/ \E data \in AnsPressed :
              \/ s_inline_scene(u, data)
              \/ s_inline_night_mount(u, data)
              \/ s_inline_mount_who(u, data)
              \/ s_inline_extra_equipment(u, data)
              \/ s_inline_dimmer_needed(u, data)
              \/ s_inline_operator(u, data)
              \/ s_inline_console_help(u, data)
              \/ s_inline_commit(u, data, TRUE, TRUE)

NextTwo == \E u \in Chats : UserEvent(u)

SpecTwo == Init /\ [][NextTwo]_vars

\* the name of the file a user uploads
IN_file_name == <<"plan.pdf">>

\* main.py 824-833 with put_to_yandex (540-550).  yd_ok: the calls of the disk
\* return; a raised exception leaves the handler without a reply.  The insert
\* into docs fails (FOREIGN KEY, db.py 86 with foreign_keys=ON) when the
\* pointer's submission is not in the table
on_doc(u, yd_ok) ==
    LET last == get_user_last(db_users, u)
        sub_id == last[1]
        folder == IF last[2] = <<>> THEN inbox_for(u) ELSE last[2]
        name == sanitize_name(IN_file_name)
        disk_path == folder \o <<"/">> \o name
        fk_ok == sub_id = 0 \/ \E j \in 1..Len(db_submissions) :
                                    db_submissions[j]["id"] = sub_id
    IN  IF ~yd_ok \/ ~fk_ok
        THEN UNCHANGED vars
        ELSE /\ db_docs' = save_doc(db_docs, u, sub_id, name, disk_path)
             /\ sent' = [sent EXCEPT ![u] =
                            <<Msg(<<"saved to disk:", NL>> \o disk_path,
                                  kb_menu(u, has_draft(db_drafts, u)))>>]
             /\ UNCHANGED <<fsm_state, fsm_data, asked, at_pause, inflight,
                            db_drafts, db_submissions, db_seq, db_users>>

NextAdmin ==
    \/ \E u \in Users :
          \/ db_seq < MaxSubs /\ m_survey(u)
          \/ EditsLeft(u) /\ m_edit(u)
          \/ m_back(u)
          \/ edit_pick(u, <<"Silovye podklyucheniya">>)
          \/ s_org(u)
          \/ s_role(u)
          \/ s_name(u)
          \/ s_date(u)
          \/ s_event_title(u)
          \/ s_techs(u)
          \/ s_plugs(u)
          \/ s_power_count(u)
          \/ s_dimmer_text(u)
          \/ s_sfx_other(u)
          \/ s_phone(u)
          \/ s_console_model(u)
          \/ ep_power_count(u)
          \/ \E data \in PtDataOne : power_types_cb(u, data)
          \/ \E data \in SxData : sfx_cb(u, data)
          \/ \E data \in AnsPressed : s_inline(u, data)
          \/ \E yd_ok \in BOOLEAN : Len(db_docs) < MaxDocs /\ on_doc(u, yd_ok)
    \/ \E u \in Chats :
          \/ m_admin(u)
          \/ a_del_start(u)
          \/ \E text \in IN_month : a_del_pick_month(u, text)
          \/ \E text \in IN_form : a_del_pick_form(u, text)
          \/ \E text \in IN_del, yd_ok \in BOOLEAN : a_del_confirm(u, text, yd_ok)
          \/ \E known \in BOOLEAN : dl_common(u, known, "file")
          \/ \E known \in BOOLEAN : dl_submission_file(u, known, "error")
    \/ \E u \in ADMIN_IDS : m_back(u)

SpecAdmin == Init /\ [][NextAdmin]_vars

-----------------------------------------------------------------------------
(* Properties *)

\* the step stores a new row in submissions
Stored == Len(db_submissions') = Len(db_submissions) + 1
NewRow == db_submissions'[Len(db_submissions')]

\* the summary as (label, value) lines, without the lines named in skip
LinesBut(a, skip) == SelectSeq(answers_lines(a), LAMBDA l : l[1] \notin skip)

\* C1: when the confirm step of a complete pass is accepted, the summary shown on
\* the confirm screen and the summary rendered from the stored Submission read
\* back from the table are the same text, every field included (phone,
\* special effects and their elaboration too).
C1_ConfirmEqualsStored ==
    [][\A u \in Users :
          (fsm_state[u] = "Survey:confirm" /\ Stored)
              => asked[u].text = <<"Check:", NL, NL>> \o answers_text(submission_to_dict(NewRow))]_vars

\* a Submission stored for a pass that gave a phone and a special effect with
\* its elaboration, rendered on the "my answers" screen
C1_Reached ==
    \E u \in Users :
        /\ has_last_submission(db_submissions, u)
        /\ sent[u] # <<>>
        /\ sent[u][1].text =
               <<"last survey:", NL, NL>>
                   \o answers_text(submission_to_dict(
                          get_last_submission_by_user(db_submissions, u)))
        /\ g(submission_to_dict(get_last_submission_by_user(db_submissions, u)), "phone") = DASH

\* C2: a resume that finds a stored draft sends exactly the prompt (text and
\* keyboard) that the dialogue had shown for the state in which pause was pressed.
C2_ResumePromptIsFlowPrompt ==
    [][\A u \in Users :
          (has_draft(db_drafts, u) /\ m_resume(u)) => sent'[u] = <<at_pause[u].asked>>]_vars

\* the technician-count step was paused and resumed
C2_Reached ==
    \E u \in Users :
        /\ has_draft(db_drafts, u)
        /\ fsm_state[u] = "Survey:techs_count"
        /\ sent[u] = <<P_techs_count_resume>>
        /\ at_pause[u].asked = P_techs_count

\* C3: a resume that finds a stored draft restores the state tag and the whole
\* draft as they were when pause was pressed.
C3_ResumeRestores ==
    [][\A u \in Users :
          (has_draft(db_drafts, u) /\ m_resume(u))
              => /\ fsm_state'[u] = at_pause[u].st
                 /\ draft_get(fsm_data'[u]) = at_pause[u].draft]_vars

\* a pass resumed in the placement step with one placement of the current item made
C3_Reached ==
    \E u \in Users :
        /\ has_draft(db_drafts, u)
        /\ fsm_state[u] = "Survey:power_where"
        /\ get_draft(db_drafts, u).fsm_state = "Survey:power_where"
        /\ draft_get(fsm_data[u]) = at_pause[u].draft
        /\ Len(draft_get(fsm_data[u])["power_items"]) = 2
        /\ draft_get(fsm_data[u])["power_i"] = 1
        /\ Len(draft_get(fsm_data[u])["power_items"][2].where) = 1

\* the step leaves the state tag, the FSM data and the drafts table of u as they were
Untouched(u) ==
    /\ fsm_state'[u] = fsm_state[u]
    /\ fsm_data'[u] = fsm_data[u]
    /\ db_drafts' = db_drafts

\* the stored draft of u is the pair (st, d)
DraftIs(tbl, u, st, d) ==
    /\ has_draft(tbl, u)
    /\ get_draft(tbl, u).fsm_state = st
    /\ json_loads(get_draft(tbl, u).draft_json) = d

C5_DraftIffPassInProgress ==
    \A u \in Users :
        /\ has_draft(db_drafts, u)
              <=> (fsm_state[u] \in SurveyStates \/ at_pause[u].st # NoState)
        /\ fsm_state[u] \in SurveyStates
              => DraftIs(db_drafts, u, fsm_state[u], draft_get(fsm_data[u]))

\* C6: the step that stores a Submission and the restart step leave no draft row
\* and no dialogue state for the user; a resume that finds no draft row changes
\* neither the state tag nor the FSM data nor the drafts table.
C6_NoDraftAfterCommitOrRestart ==
    [][\A u \in Users :
          /\ ((fsm_state[u] = "Survey:confirm" /\ Stored)
                  \/ s_inline_restart(u, AnsData("confirm", 1)))
                => (~has_draft(db_drafts', u) /\ fsm_state'[u] = NoState)
          /\ (~has_draft(db_drafts, u) /\ m_resume(u)) => Untouched(u)]_vars

\* after a commit a resume was answered with "no draft"
C6_Reached ==
    \E u \in Users :
        /\ has_last_submission(db_submissions, u)
        /\ ~has_draft(db_drafts, u)
        /\ fsm_state[u] = NoState
        /\ sent[u] = <<Msg(<<"no draft">>, kb_menu(u, FALSE))>>

\* C7: the number of Submissions grows only by the accept step of a pass that is
\* in the confirm state, by exactly one, and that step ends the pass (no state
\* tag, no FSM data, no draft row); an accept press outside the survey confirm
\* state stores no Submission.
C7_OneSubmissionPerDraft ==
    [][/\ Len(db_submissions') # Len(db_submissions)
            => /\ Stored
               /\ \E u \in Users :
                     /\ fsm_state[u] = "Survey:confirm"
                     /\ NewRow["user_id"] = u
                     /\ fsm_state'[u] = NoState
                     /\ fsm_data'[u] = Cleared
                     /\ ~has_draft(db_drafts', u)
       /\ \A u \in Users :
             (fsm_state[u] # "Survey:confirm" /\ s_inline(u, AnsData("confirm", 0)))
                 => Len(db_submissions') = Len(db_submissions)]_vars

\* the Submission has just been stored: the thanks and the "saved" message are out
C7_Reached ==
    \E u \in Users :
        /\ Len(db_submissions) = 1
        /\ fsm_state[u] = NoState
        /\ Len(sent[u]) = 2
        /\ sent[u][2].text = <<"survey saved">>

\* C8: a user never has more than one draft row; "take the survey" pressed while
\* a draft row exists leaves the drafts table alone, starts no pass and asks what
\* to do; while a draft row exists a survey state is entered from outside the
\* survey only by start-over, which deletes the row and asks the first question,
\* or by resume, which enters the stored state.
C8_OneDraftExplicitChoice ==
    [][\A u \in Users :
          /\ Len(RowsOf(db_drafts', u)) <= 1
          /\ (has_draft(db_drafts, u) /\ m_survey(u))
                => /\ db_drafts' = db_drafts
                   /\ fsm_state'[u] = NoState
                   /\ sent'[u] = <<Msg(<<"unfinished survey. what now?">>, kb_resume_or_new)>>
          /\ (has_draft(db_drafts, u) /\ fsm_state[u] \notin SurveyStates
                  /\ fsm_state'[u] \in SurveyStates)
                => \/ /\ m_new(u)
                      /\ ~has_draft(db_drafts', u)
                      /\ fsm_state'[u] = "Survey:org"
                   \/ /\ m_resume(u)
                      /\ db_drafts' = db_drafts
                      /\ fsm_state'[u] = get_draft(db_drafts, u).fsm_state]_vars

\* with a draft stored, "take the survey" was answered with the two choices
C8_Reached ==
    \E u \in Users :
        /\ has_draft(db_drafts, u)
        /\ fsm_state[u] = NoState
        /\ sent[u] = <<Msg(<<"unfinished survey. what now?">>, kb_resume_or_new)>>

\* the rows of submissions the step wrote
Written ==
    {i \in 1..Len(db_submissions') :
        i > Len(db_submissions) \/ db_submissions'[i] # db_submissions[i]}

\* C9: every row a survey commit or a power edit writes carries the summary of the
\* power items collected: power_where_json lists "type: location" item by item and
\* placement by placement, power_type joins the item types with ", " ("Net" when
\* there are no items), and power_count is the number of entries of
\* power_where_json.
C9_PowerSummaryFromItems ==
    [][\A u \in Users :
          fsm_state[u] \in {"Survey:confirm", "EditPower:confirm"}
              => \A i \in Written :
                    LET items == GetList(draft_get(fsm_data[u]), "power_items")
                        row == db_submissions'[i]
                    IN  /\ row["power_where_json"] = json_dumps_list(FlatWhere(items))
                        /\ row["power_type"] =
                               (IF items = <<>> THEN NET
                                ELSE Join(<<", ">>, [k \in 1..Len(items) |-> items[k].type]))
                        /\ row["power_count"] =
                               IntStr(Len(json_loads_list(row["power_where_json"])))]_vars

\* a power edit has just written a row with two types, the second option selected
\* first, three connections in all
C9_Reached ==
    \E u \in Users :
        /\ sent[u] = <<Msg(<<"power updated">>, kb_menu(u, has_draft(db_drafts, u)))>>
        /\ has_last_submission(db_submissions, u)
        /\ LET row == get_last_submission_by_user(db_submissions, u)
           IN  /\ row["power_type"] = SURVEY_OPTIONS["power_type"][3] \o <<", ">>
                                          \o SURVEY_OPTIONS["power_type"][2]
               /\ row["power_count"] = <<"3">>
               /\ Len(json_loads_list(row["power_where_json"])) = 3

\* C10: "next" pressed on an empty power-type selection in the survey leads
\* straight to the dimmer question with no power items; the Submission committed
\* from such a pass has power_type "Net", an empty placement list and power_count
\* 0, and the confirm screen and the stored Submission both render power needed as
\* "Net".
C10_EmptyPowerSelection ==
    [][\A u \in Users :
          LET d == draft_get(fsm_data[u])
          IN  /\ (fsm_state[u] = "Survey:power_type" /\ GetList(d, "power_types") = <<>>
                      /\ power_types_cb(u, <<"pt", ":", "done">>))
                    => /\ fsm_state'[u] = "Survey:dimmer_needed"
                       /\ GetList(draft_get(fsm_data'[u]), "power_items") = <<>>
              /\ (fsm_state[u] = "Survey:confirm" /\ Stored
                      /\ GetList(d, "power_types") = <<>>)
                    => /\ NewRow["power_type"] = NET
                       /\ NewRow["power_where_json"] = json_dumps_list(<<>>)
                       /\ NewRow["power_count"] = <<"0">>
                       /\ answers_lines(d)[13] = <<"13) power", NET>>
                       /\ answers_lines(submission_to_dict(NewRow))[13] = <<"13) power", NET>>]_vars

\* a Submission committed from a pass without power types, shown on "my answers"
C10_Reached ==
    \E u \in Users :
        /\ has_last_submission(db_submissions, u)
        /\ get_last_submission_by_user(db_submissions, u)["power_type"] = NET
        /\ get_last_submission_by_user(db_submissions, u)["power_count"] = <<"0">>
        /\ sent[u] # <<>>
        /\ sent[u][1].text[1] = "last survey:"


\* the single-choice presses a keyboard of field offers
AllPresses(field) == {AnsData(field, k) : k \in 0..(Len(SURVEY_OPTIONS[field]) - 1)}

\* C11: in the power loop a valid count for item i stores the count, empties the
\* item's placements and asks for placements of that same item; every placement
\* press is appended to item i (duplicates kept) and nothing else changes in the
\* items; while fewer than count_i placements are stored the loop stays on the
\* item, after the count_i-th it asks for the count of item i+1, and after the
\* last item it asks the dimmer question (the power confirmation in an edit), with
\* every item then holding exactly count_i placements.
C11_PowerLoopOrder ==
    [][\A u \in Users :
          LET d == draft_get(fsm_data[u])
              d1 == draft_get(fsm_data'[u])
              items == GetList(d, "power_items")
              items1 == GetList(d1, "power_items")
              i == d["power_i"]
              edit == InEdit(fsm_state[u])
          IN  /\ (fsm_state[u] \in {"Survey:power_count", "EditPower:power_count"}
                      /\ (s_power_count(u) \/ ep_power_count(u))
                      /\ fsm_state'[u] # fsm_state[u])
                    => /\ i < Len(items)
                       /\ fsm_state'[u] = (IF edit THEN "EditPower:power_where"
                                           ELSE "Survey:power_where")
                       /\ items1[i + 1].count \in 1..MaxCount
                       /\ items1 = [items EXCEPT ![i + 1] =
                                        [@ EXCEPT !.count = items1[i + 1].count,
                                                  !.where = <<>>]]
                       /\ d1["power_i"] = i
              /\ \A data \in AllPresses("power_where") :
                    (fsm_state[u] \in {"Survey:power_where", "EditPower:power_where"}
                        /\ s_inline_power_where(u, data))
                      => /\ i < Len(items)
                         /\ Len(items[i + 1].where) < items[i + 1].count
                         /\ items1 = [items EXCEPT ![i + 1].where = Append(@, cb_value(data))]
                         /\ IF Len(items1[i + 1].where) < items1[i + 1].count
                            THEN fsm_state'[u] = fsm_state[u] /\ d1["power_i"] = i
                            ELSE IF i + 1 < Len(items)
                            THEN /\ fsm_state'[u] = (IF edit THEN "EditPower:power_count"
                                                     ELSE "Survey:power_count")
                                 /\ d1["power_i"] = i + 1
                            ELSE /\ fsm_state'[u] = (IF edit THEN "EditPower:confirm"
                                                     ELSE "Survey:dimmer_needed")
                                 /\ \A k \in 1..Len(items1) :
                                       Len(items1[k].where) = items1[k].count]_vars

\* the dimmer question has just been asked after two items, the first with the
\* same location placed twice
C11_Reached ==
    \E u \in Users :
        /\ fsm_state[u] = "Survey:dimmer_needed"
        /\ sent[u] = <<P_dimmer_needed>>
        /\ LET items == GetList(draft_get(fsm_data[u]), "power_items")
           IN  /\ Len(items) = 2
               /\ items[1].count = 2
               /\ items[1].where = <<SURVEY_OPTIONS["power_where"][1],
                                     SURVEY_OPTIONS["power_where"][1]>>
               /\ Len(items[2].where) = items[2].count


\* every press the power multi-select keyboard offers
AllPtPresses ==
    {<<"pt", ":", "none">>, <<"pt", ":", "done">>}
        \cup {<<"pt", ":", "opt", ":">> \o IntStr(k) :
                 k \in 1..(Len(SURVEY_OPTIONS["power_type"]) - 1)}

\* C12: outside the two power-type selection states (in the count and placement
\* states, in every later survey state, and with no dialogue state) a toggle,
\* "none" or "next" press of the power multi-select changes neither the state tag
\* nor the draft: selected types, power items and cursor stay as they were.
C12_SelectionFrozen ==
    [][\A u \in Users : \A data \in AllPtPresses :
          (fsm_state[u] \notin {"Survey:power_type", "EditPower:power_type"}
              /\ power_types_cb(u, data))
            => /\ fsm_state'[u] = fsm_state[u]
               /\ GetList(draft_get(fsm_data'[u]), "power_types")
                      = GetList(draft_get(fsm_data[u]), "power_types")
               /\ GetList(draft_get(fsm_data'[u]), "power_items")
                      = GetList(draft_get(fsm_data[u]), "power_items")
               /\ power_i_of(draft_get(fsm_data'[u])) = power_i_of(draft_get(fsm_data[u]))]_vars

\* the placement step of a pass with two types selected and one placement made:
\* the old selection keyboard can still be pressed here
C12_Reached ==
    \E u \in Users :
        /\ fsm_state[u] = "Survey:power_where"
        /\ Len(GetList(draft_get(fsm_data[u]), "power_types")) = 2
        /\ LET items == GetList(draft_get(fsm_data[u]), "power_items")
           IN  Len(items) = 2 /\ items[1].count = 2 /\ Len(items[1].where) = 1


\* pressing option k of opts turns the selection sel into sel1: the membership of
\* that option flips, the membership of every other option stays
Flipped(opts, k, sel, sel1) ==
    \A j \in 1..Len(opts) :
        InList(opts[j], sel1) <=> (IF j = k + 1 THEN ~InList(opts[j], sel)
                                   ELSE InList(opts[j], sel))

\* C13: in the power-type selection states and in the special-effects selection
\* state a press of an option flips the membership of exactly that option in the
\* selection of that keyboard and leaves every other option as it was; "none"
\* empties that selection; a press on one keyboard leaves the other selection
\* alone; none of these presses changes the state tag.
C13_TogglesFlipOneOption ==
    [][\A u \in Users :
          LET d == draft_get(fsm_data[u])
              d1 == draft_get(fsm_data'[u])
              pt == GetList(d, "power_types")
              pt1 == GetList(d1, "power_types")
              sx == GetList(d, "sfx_list")
              sx1 == GetList(d1, "sfx_list")
          IN  /\ fsm_state[u] \in {"Survey:power_type", "EditPower:power_type"}
                    => /\ \A k \in 1..(Len(SURVEY_OPTIONS["power_type"]) - 1) :
                             power_types_cb(u, <<"pt", ":", "opt", ":">> \o IntStr(k))
                               => /\ Flipped(SURVEY_OPTIONS["power_type"], k, pt, pt1)
                                  /\ sx1 = sx
                                  /\ fsm_state'[u] = fsm_state[u]
                       /\ power_types_cb(u, <<"pt", ":", "none">>)
                             => (pt1 = <<>> /\ sx1 = sx /\ fsm_state'[u] = fsm_state[u])
              /\ fsm_state[u] = "Survey:sfx"
                    => /\ \A k \in 1..(Len(SURVEY_OPTIONS["sfx"]) - 1) :
                             sfx_cb(u, <<"sx", ":", "opt", ":">> \o IntStr(k))
                               => /\ Flipped(SURVEY_OPTIONS["sfx"], k, sx, sx1)
                                  /\ pt1 = pt
                                  /\ fsm_state'[u] = fsm_state[u]
                       /\ sfx_cb(u, <<"sx", ":", "none">>)
                             => (sx1 = <<>> /\ pt1 = pt /\ fsm_state'[u] = fsm_state[u])]_vars

\* in the special-effects selection of a pass with two power types: "other" was
\* selected before the smoke option, and the keyboard shows both as selected
C13_Reached ==
    \E u \in Users :
        /\ fsm_state[u] = "Survey:sfx"
        /\ Len(GetList(draft_get(fsm_data[u]), "power_types")) = 2
        /\ GetList(draft_get(fsm_data[u]), "sfx_list")
               = <<SURVEY_OPTIONS["sfx"][6], SURVEY_OPTIONS["sfx"][2]>>
        /\ sent[u] # <<>>
        /\ sent[u][1].kb = kb_sfx_multi(GetList(draft_get(fsm_data[u]), "sfx_list"), FALSE)


\* the answers of a pass in state st that can be read from its draft
Answer(u, k) == GetText(draft_get(fsm_data[u]), k)
Answer1(u, k) == GetText(draft_get(fsm_data'[u]), k)

\* C14: the extra-equipment answer "Net" stores the placeholder as plugs and asks
\* for the power types; every other answer asks for the plugs and stores no
\* plugs; the power-type selection is left by the plugs step only with the text
\* typed there, so whenever the survey is in the power-type selection either the
\* answer was "Net" and plugs is the placeholder, or plugs is a typed text.
C14_ExtraEquipmentBranch ==
    [][\A u \in Users :
          /\ \A k \in 0..(Len(SURVEY_OPTIONS["extra_equipment"]) - 1) :
                s_inline_extra_equipment(u, AnsData("extra_equipment", k))
                  => LET value == SURVEY_OPTIONS["extra_equipment"][k + 1]
                     IN  /\ Answer1(u, "extra_equipment") = value
                         /\ IF value = <<"Net">>
                            THEN /\ fsm_state'[u] = "Survey:power_type"
                                 /\ Answer1(u, "plugs") = <<"-">>
                            ELSE /\ fsm_state'[u] = "Survey:plugs"
                                 /\ ~Has(draft_get(fsm_data'[u]), "plugs")
          /\ (fsm_state[u] = "Survey:plugs" /\ fsm_state'[u] = "Survey:power_type")
                => s_plugs(u) /\ Answer1(u, "plugs") \in {Strip(t) : t \in IN_plugs}
          /\ fsm_state'[u] = "Survey:power_type"
                => \/ Answer1(u, "extra_equipment") = <<"Net">> /\ Answer1(u, "plugs") = <<"-">>
                   \/ /\ Answer1(u, "extra_equipment") # <<"Net">>
                      /\ Answer1(u, "plugs") \in {Strip(t) : t \in IN_plugs}]_vars

\* the power-type selection was entered straight from the extra-equipment answer
\* "Net"
C14_Reached ==
    \E u \in Users :
        /\ fsm_state[u] = "Survey:power_type"
        /\ Answer(u, "extra_equipment") = <<"Net">>
        /\ Answer(u, "plugs") = <<"-">>
        /\ sent[u] = <<P_power_type(draft_get(fsm_data[u]))>>


\* C15: the dimmer answer "Net" stores the placeholder as dimmer text and asks
\* for the special effects; the answer "Da" asks for the dimmer text and stores
\* none; the dimmer-text step is left for the special effects only by a typed
\* text, so the special-effects selection always has either the answer "Net"
\* with the placeholder or another answer with a typed text.
C15_DimmerBranch ==
    [][\A u \in Users :
          /\ \A k \in 0..(Len(SURVEY_OPTIONS["dimmer_needed"]) - 1) :
                s_inline_dimmer_needed(u, AnsData("dimmer_needed", k))
                  => LET value == SURVEY_OPTIONS["dimmer_needed"][k + 1]
                     IN  /\ Answer1(u, "dimmer_needed") = value
                         /\ IF value = <<"Net">>
                            THEN /\ fsm_state'[u] = "Survey:sfx"
                                 /\ Answer1(u, "dimmer_text") = <<"-">>
                            ELSE /\ value = <<"Da">>
                                 /\ fsm_state'[u] = "Survey:dimmer_text"
                                 /\ ~Has(draft_get(fsm_data'[u]), "dimmer_text")
          /\ (fsm_state[u] = "Survey:dimmer_text" /\ fsm_state'[u] = "Survey:sfx")
                => s_dimmer_text(u)
          /\ fsm_state'[u] = "Survey:sfx"
                => \/ Answer1(u, "dimmer_needed") = <<"Net">> /\ Answer1(u, "dimmer_text") = <<"-">>
                   \/ /\ Answer1(u, "dimmer_needed") = <<"Da">>
                      /\ Answer1(u, "dimmer_text") \in {Strip(t) : t \in IN_dimmer_text}]_vars

\* the special-effects selection was entered straight from the dimmer answer "Net"
C15_Reached ==
    \E u \in Users :
        /\ fsm_state[u] = "Survey:sfx"
        /\ Answer(u, "dimmer_needed") = <<"Net">>
        /\ Answer(u, "dimmer_text") = <<"-">>
        /\ sent[u] = <<P_sfx(draft_get(fsm_data[u]))>>

\* C16: the answer "Operator M12" stores the placeholder as console help and as
\* console model and asks for the phone; the other answer asks for the console
\* help; the console-help and console-model steps are never in a pass whose
\* operator answer is "Operator M12".
C16_OperatorBranch ==
    [][\A u \in Users :
          /\ \A k \in 0..(Len(SURVEY_OPTIONS["operator"]) - 1) :
                s_inline_operator(u, AnsData("operator", k))
                  => LET value == SURVEY_OPTIONS["operator"][k + 1]
                     IN  /\ Answer1(u, "operator") = value
                         /\ IF value = <<"Operator", " ", "M12">>
                            THEN /\ fsm_state'[u] = "Survey:phone"
                                 /\ Answer1(u, "console_help") = <<"-">>
                                 /\ Answer1(u, "console_model") = <<"-">>
                            ELSE fsm_state'[u] = "Survey:console_help"
          /\ fsm_state'[u] \in {"Survey:console_help", "Survey:console_model"}
                => Answer1(u, "operator") = <<"Sami">>]_vars

\* the phone step was entered straight from the operator answer "Operator M12"
C16_Reached ==
    \E u \in Users :
        /\ fsm_state[u] = "Survey:phone"
        /\ Answer(u, "operator") = <<"Operator", " ", "M12">>
        /\ Answer(u, "console_help") = <<"-">>
        /\ Answer(u, "console_model") = <<"-">>
        /\ sent[u] = <<P_phone>>

\* C17: a console-help answer enters the console-model step exactly when it is
\* "Privezem svoy pult"; every other answer stores the placeholder as console
\* model and asks for the phone; the console-model step is entered by no other
\* answer of the survey.
C17_ConsoleHelpBranch ==
    [][\A u \in Users :
          /\ \A k \in 0..(Len(SURVEY_OPTIONS["console_help"]) - 1) :
                s_inline_console_help(u, AnsData("console_help", k))
                  => LET value == SURVEY_OPTIONS["console_help"][k + 1]
                     IN  /\ Answer1(u, "console_help") = value
                         /\ fsm_state'[u] = "Survey:console_model"
                               <=> value = <<"Privezem svoy pult">>
                         /\ value # <<"Privezem svoy pult">>
                               => /\ fsm_state'[u] = "Survey:phone"
                                  /\ Answer1(u, "console_model") = <<"-">>
          /\ fsm_state'[u] = "Survey:console_model"
                => Answer1(u, "console_help") = <<"Privezem svoy pult">>
          /\ (fsm_state[u] = "Survey:console_help" /\ fsm_state'[u] = "Survey:phone")
                => Answer1(u, "console_help") # <<"Privezem svoy pult">>]_vars

\* the phone step was entered from a console-help answer other than the own
\* console, and the console-model step from the own console
C17_Reached ==
    \E u \in Users :
        /\ fsm_state[u] = "Survey:phone"
        /\ Answer(u, "console_help") = <<"Da">>
        /\ Answer(u, "console_model") = <<"-">>
        /\ sent[u] = <<P_phone>>


\* C18: finishing the special-effects selection enters the elaboration step
\* exactly when the selection contains "Drugoe"; otherwise it asks the operator
\* question and stores the empty elaboration; the selection itself is kept.
C18_SfxDone ==
    [][\A u \in Users :
          (fsm_state[u] = "Survey:sfx" /\ sfx_cb(u, <<"sx", ":", "done">>))
            => LET sel == GetList(draft_get(fsm_data[u]), "sfx_list")
                   other == \E i \in 1..Len(sel) : sel[i] = <<"Drugoe">>
               IN  /\ GetList(draft_get(fsm_data'[u]), "sfx_list") = sel
                   /\ fsm_state'[u] = "Survey:sfx_other" <=> other
                   /\ ~other => /\ fsm_state'[u] = "Survey:operator"
                                /\ Has(draft_get(fsm_data'[u]), "sfx_other")
                                /\ Answer1(u, "sfx_other") = <<>>
                                /\ sent'[u] = <<P_operator>>]_vars

\* the operator question follows a finished selection of one effect other than
\* "Drugoe"
C18_Reached ==
    \E u \in Users :
        /\ fsm_state[u] = "Survey:operator"
        /\ GetList(draft_get(fsm_data[u]), "sfx_list") = << <<"Dym/tuman">> >>
        /\ Answer(u, "sfx_other") = <<>>
        /\ sent[u] = <<P_operator>>


\* C19: the restart choice at the survey confirm step deletes the user's draft
\* row, clears the dialogue state and its data, leaves the submissions, their
\* sequence and the user rows as they are, and answers with the menu only: the
\* user is then in no survey state and has no draft.
C19_RestartDiscards ==
    [][\A u \in Users :
          (fsm_state[u] = "Survey:confirm" /\ s_inline(u, AnsData("confirm", 1)))
            => /\ \A i \in 1..Len(db_drafts') : db_drafts'[i].user_id # u
               /\ fsm_state'[u] = NoState
               /\ fsm_data'[u] = Cleared
               /\ db_submissions' = db_submissions
               /\ db_seq' = db_seq
               /\ db_users' = db_users
               /\ sent'[u] = <<MenuMsg(u, FALSE)>>]_vars

\* the confirm step of a pass whose draft row was stored by a pause: the restart
\* choice can be pressed and there is a draft row for it to delete
C19_Reached ==
    \E u \in Users :
        /\ fsm_state[u] = "Survey:confirm"
        /\ has_draft(db_drafts, u)
        /\ Answer(u, "phone") # <<>>
        /\ db_submissions = <<>>
        /\ ENABLED s_inline_restart(u, AnsData("confirm", 1))


\* the re-prompt q of the step the user is in: nothing but the reply changes
Reprompted(u, q) ==
    /\ sent'[u] = <<q>>
    /\ fsm_state'[u] = fsm_state[u]
    /\ fsm_data'[u] = fsm_data[u]
    /\ db_drafts' = db_drafts /\ db_submissions' = db_submissions

\* the handler ended without a reply and without a change
Silent(u) == sent'[u] = <<>> /\ fsm_state'[u] = fsm_state[u] /\ fsm_data'[u] = fsm_data[u]

\* every input of the four checked steps is either accepted, and then the value
\* stored conforms to the format of the step, or re-prompted; with silent, the
\* handler may also end without a reply
InputHandled(u, silent) ==
    /\ s_date(u)
         => \/ /\ fsm_state'[u] = "Survey:event_title"
               /\ Answer1(u, "event_date")
                    = <<"0", "1", ".", "0", "1", ".", "2", "0", "3", "0">>
            \/ Reprompted(u, E_date)
    /\ s_techs(u)
         => \/ /\ fsm_state'[u] = "Survey:extra_equipment"
               /\ Answer1(u, "techs_count") = <<"3">>
            \/ Reprompted(u, E_number)
            \/ silent /\ Silent(u)
    /\ s_power_count(u)
         => \/ /\ fsm_state'[u] = "Survey:power_where"
               /\ LET items == GetList(draft_get(fsm_data'[u]), "power_items")
                  IN  \E i \in 1..Len(items) : items[i].count \in 1..MaxCount
            \/ fsm_state'[u] = "Survey:dimmer_needed"
            \/ Reprompted(u, E_number)
    /\ s_phone(u)
         => \/ /\ fsm_state'[u] = "Survey:confirm"
               /\ Answer1(u, "phone") = <<"+", "7", " ", "9", "9", "9">>
            \/ Reprompted(u, E_phone)

\* C20: at the event date, technician count, power count and phone steps an
\* input that does not conform is answered by the re-prompt of the same step,
\* with the state tag, the answers and the power items as before: every input
\* is either re-prompted so or accepted with a conforming value.
C20_InvalidInputReprompts == [][\A u \in Users : InputHandled(u, FALSE)]_vars

\* the same with the handler allowed to end in its exception
RejectedOrSilent == [][\A u \in Users : InputHandled(u, TRUE)]_vars


\* C21: in an inline-choice step of the survey a text that is no menu command is
\* answered with the notice to use the buttons, and the state tag and the draft
\* stay as they are.
C21_TextInChoiceStep ==
    [][\A u \in Users :
          (fsm_state[u] \in InlineOnlyStates \cup {"Survey:power_type"} /\ fallback(u))
            => /\ sent'[u] \in {<<E_buttons>>, <<E_buttons_many>>}
               /\ fsm_state'[u] = fsm_state[u]
               /\ fsm_data'[u] = fsm_data[u]]_vars

\* the same with the answer left open: the state tag, the draft and the tables
\* stay as they are
TextInChoiceStepKeepsState ==
    [][\A u \in Users :
          (fsm_state[u] \in InlineOnlyStates \cup {"Survey:power_type"} /\ fallback(u))
            => /\ fsm_state'[u] = fsm_state[u]
               /\ fsm_data'[u] = fsm_data[u]
               /\ db_drafts' = db_drafts /\ db_submissions' = db_submissions]_vars


\* the accept press of user u stored the submission: one more row, owned by u,
\* the last pointer of u on it, and no draft row of u
CommitDone(u) ==
    /\ Len(db_submissions') = Len(db_submissions) + 1
    /\ db_submissions'[Len(db_submissions')]["user_id"] = u
    /\ db_submissions'[Len(db_submissions')]["id"] = db_seq'
    /\ \E i \in 1..Len(db_users') :
          /\ db_users'[i].user_id = u
          /\ db_users'[i].last_submission_id = db_seq'
          /\ db_users'[i].last_folder_path = db_submissions'[Len(db_submissions')]["ydisk_folder"]
    /\ ~has_draft(db_drafts', u)

\* C23: once the user accepts the survey confirm step, the submission is
\* stored, the last pointer is set and the draft row is deleted, whether or not
\* the folder creation and the document upload of the commit succeeded.
C23_CommitSurvivesCollaborators ==
    [][\A u \in Users :
          (fsm_state[u] = "Survey:confirm" /\ s_inline(u, AnsData("confirm", 0)))
            => CommitDone(u)]_vars

\* the same for the accept presses that get past the folder creation: the
\* document upload may fail or not
CommitSurvivesUpload ==
    [][\A u \in Users :
          (fsm_state[u] = "Survey:confirm" /\ s_inline(u, AnsData("confirm", 0))
             /\ fsm_state'[u] = NoState)
            => CommitDone(u)]_vars


\* the plain fields of the edit menu: every field but the power block
PlainFields == {EDIT_FIELDS[i][1] : i \in 1..Len(EDIT_FIELDS)} \ {"power_block"}

GoodDate == <<"0", "2", ".", "0", "2", ".", "2", "0", "3", "1">>
GoodPhone == <<"+", "7", " ", " ", "9", "9", "9">>

\* the value text passes the validation of field f, in the words of the edit
\* menu: an option of an enum field, an existing day, a positive number, a phone
PassesValidation(f, text) ==
    IF f \in EDIT_OPTIONS THEN \E i \in 1..Len(SURVEY_OPTIONS[f]) : SURVEY_OPTIONS[f][i] = text
    ELSE IF f = "event_date" THEN text = GoodDate
    ELSE IF f = "techs_count" THEN text = <<"4">>
    ELSE IF f = "phone" THEN text = GoodPhone
    ELSE TRUE

\* the value the submission is to hold: the trimmed text, the phone with its
\* runs of spaces collapsed
ValueOf(f, text) ==
    IF text = NONE THEN <<>>
    ELSE IF f = "phone" THEN <<"+", "7", " ", "9", "9", "9">>
    ELSE text

\* user u sends text as the new value of field f, and the folder calls return
EditOf(u, f, text) ==
    /\ fsm_state[u] = "Edit:value"
    /\ Has(fsm_data[u], "edit_sub_id") /\ Has(fsm_data[u], "edit_field")
    /\ fsm_data[u]["edit_field"] = f
    /\ has_submission(db_submissions, fsm_data[u]["edit_sub_id"])
    /\ edit_value(u, text, TRUE)

EditedRow(u) == get_submission(db_submissions, fsm_data[u]["edit_sub_id"])
EditedRow1(u) == get_submission(db_submissions', fsm_data[u]["edit_sub_id"])

\* the edit of field f with text is stored and reported as done
EditStored(u, f, text) ==
    /\ f \in DOMAIN EditedRow1(u)
    /\ EditedRow1(u)[f] = ValueOf(f, text)
    /\ sent'[u] = <<Msg(<<"updated">>, kb_menu(u, has_draft(db_drafts, u)))>>

\* C25: for every plain field of the edit menu a value that passes validation
\* is afterwards the value of that field in the edited submission, and the
\* update is reported as done.
C25_EditStoresValue ==
    [][\A u \in Users : \A f \in PlainFields : \A text \in IN_edit_all :
          (PassesValidation(f, text) /\ EditOf(u, f, text)) => EditStored(u, f, text)]_vars

\* the same for every plain field but the phone
EditStoresValueButPhone ==
    [][\A u \in Users : \A f \in PlainFields \ {"phone"} : \A text \in IN_edit_all :
          (PassesValidation(f, text) /\ EditOf(u, f, text)) => EditStored(u, f, text)]_vars


\* the fields that the value text of field f switches off
Dependents(f, text) ==
    IF f = "extra_equipment" /\ text = <<"Net">> THEN {"plugs"}
    ELSE IF f = "dimmer_needed" /\ text = <<"Net">> THEN {"dimmer_text"}
    ELSE IF f = "operator" /\ text = <<"Operator", " ", "M12">>
         THEN {"console_help", "console_model"}
    ELSE IF f = "console_help" /\ text # <<"Privezem svoy pult">> THEN {"console_model"}
    ELSE {}

\* C26: an edit that sets extra_equipment or dimmer_needed to "Net", the
\* operator to "Operator M12", or console_help to anything but the own console
\* also stores the placeholder in the dependent fields; every edit leaves all
\* other fields of the submission as they were, but for the folder path (and
\* the time of the update).
C26_EditResetsDependents ==
    [][\A u \in Users : \A f \in PlainFields : \A text \in IN_edit_all :
          (PassesValidation(f, text) /\ EditOf(u, f, text))
            => /\ \A k \in Dependents(f, text) : EditedRow1(u)[k] = <<"-">>
               /\ \A k \in DOMAIN EditedRow(u) :
                     k \notin {f, "ydisk_folder", "updated_at"} \cup Dependents(f, text)
                        => EditedRow1(u)[k] = EditedRow(u)[k]]_vars

\* a submission whose operator was edited from "Sami", with the console typed
\* in the survey, to the operator of the institution
C26_Reached ==
    \E i \in 1..Len(db_submissions) :
        /\ db_submissions[i]["updated_at"] = 1
        /\ db_submissions[i]["operator"] = <<"Operator", " ", "M12">>
        /\ db_submissions[i]["console_help"] = <<"-">>
        /\ db_submissions[i]["console_model"] = <<"-">>
        /\ db_submissions[i]["plugs"] = <<"Schuko">>


\* the fields the folder path is made of
FolderFields == {"org", "event_date", "event_title"}

\* the folder of the edited submission with text as the new value of field f
FolderAfter(u, f, text) ==
    LET val(k) == IF k = f THEN ValueOf(f, text) ELSE EditedRow(u)[k]
    IN  folder_for(val("event_date"), val("org"), val("event_title"))

\* the folder path and the last pointer after the edit of f, and the document
\* records left alone
Refoldered(u, f, text) ==
    /\ EditedRow1(u)["ydisk_folder"] = FolderAfter(u, f, text)
    /\ \E i \in 1..Len(db_users') :
          /\ db_users'[i].user_id = u
          /\ db_users'[i].last_submission_id = fsm_data[u]["edit_sub_id"]
          /\ db_users'[i].last_folder_path = FolderAfter(u, f, text)
    /\ db_docs' = db_docs

\* C27: an edit of the organisation, the event date or the event title sets the
\* folder path of the submission to the path made of the new value of the
\* edited field and the stored values of the other two, writes that path and
\* the submission id into the last pointer of the user, and leaves the
\* document records as they are.
C27_EditRecomputesFolder ==
    [][\A u \in Users : \A f \in FolderFields : \A text \in IN_edit_all :
          (PassesValidation(f, text) /\ EditOf(u, f, text)) => Refoldered(u, f, text)]_vars

\* the same for the new values that are not empty
RefolderedByText ==
    [][\A u \in Users : \A f \in FolderFields : \A text \in IN_edit_all \ {NONE} :
          (PassesValidation(f, text) /\ EditOf(u, f, text)) => Refoldered(u, f, text)]_vars


\* the value text fails the validation of field f: not an option of an enum
\* field, not an existing day, not a positive number, not a phone
FailsValidation(f, text) ==
    IF f \in EDIT_OPTIONS THEN \A i \in 1..Len(SURVEY_OPTIONS[f]) : SURVEY_OPTIONS[f][i] # text
    ELSE IF f = "event_date" THEN text # GoodDate
    ELSE IF f = "techs_count" THEN text \notin {<<"4">>, <<"1", "2", "3">>}
    ELSE IF f = "phone" THEN text # GoodPhone
    ELSE FALSE

\* C29: in edit mode a value that fails the validation of the edited field (a
\* date that does not exist, a technician count that is not positive, a text
\* that is no phone, a text that is no option of an enum field) leaves the
\* dialogue in the edit-value state for the same field and leaves the
\* submissions and the last pointers as they were.
C29_EditRejectsInvalid ==
    [][\A u \in Users : \A f \in PlainFields : \A text \in IN_edit_all :
       \A folder_ok \in BOOLEAN :
          (/\ fsm_state[u] = "Edit:value"
           /\ Has(fsm_data[u], "edit_sub_id") /\ Has(fsm_data[u], "edit_field")
           /\ fsm_data[u]["edit_field"] = f
           /\ FailsValidation(f, text)
           /\ edit_value(u, text, folder_ok))
          => /\ fsm_state'[u] = "Edit:value"
             /\ fsm_data'[u] = fsm_data[u]
             /\ db_submissions' = db_submissions
             /\ db_users' = db_users]_vars

\* a rejected technician count and a rejected option have been answered
C29_Reached ==
    \E u \in Users :
        /\ fsm_state[u] = "Edit:value"
        /\ \/ fsm_data[u]["edit_field"] = "techs_count" /\ sent[u] = <<edit_error("techs_count")>>
           \/ fsm_data[u]["edit_field"] = "event_date" /\ sent[u] = <<edit_error("event_date")>>
        /\ db_submissions # <<>>


\* the fields a power edit writes
PowerFields == {"power_type", "power_count", "power_where_json", "updated_at"}

\* the submissions differ from the ones before at most in the power fields of
\* the edited submission
OnlyPowerFieldsChanged(u) ==
    /\ Len(db_submissions') = Len(db_submissions)
    /\ \A i \in 1..Len(db_submissions) :
          /\ DOMAIN db_submissions'[i] = DOMAIN db_submissions[i]
          /\ \A k \in DOMAIN db_submissions[i] :
                db_submissions'[i][k] # db_submissions[i][k]
                   => /\ db_submissions[i]["id"] = fsm_data[u]["edit_sub_id"]
                      /\ k \in PowerFields

\* the press of the save button and of the start-over button of the confirmation
EpAccept == AnsData("confirm", 0)
EpDecline == AnsData("confirm", 1)

\* u presses data at the confirmation of a power edit
EpConfirmPress(u, data) == fsm_state[u] = "EditPower:confirm" /\ s_inline(u, data)

\* the submissions, the last pointers and the documents are kept, and so are
\* the drafts unless the step is the start of a new survey
EditLeftStore(u) ==
    /\ db_submissions' = db_submissions /\ db_seq' = db_seq
    /\ db_users' = db_users /\ db_docs' = db_docs
    /\ (db_drafts' = db_drafts \/ m_new(u))

HasLine(text, label, value) ==
    \E i \in 1..Len(text) :
        /\ text[i] = label
        /\ i + 1 + Len(value) <= Len(text)
        /\ text[i + 1] = ": "
        /\ SubSeq(text, i + 2, i + 1 + Len(value)) = value
        /\ (i + 1 + Len(value) = Len(text) \/ text[i + 2 + Len(value)] = NL)

\* power types are selected in the answers a, and no count and no placement
\* has been filled
TypesSelectedOnly(a) ==
    /\ a["power_types"] # <<>> \/ a["power_items"] # <<>>
    /\ a["power_where_list"] = <<>>
    /\ \A i \in 1..Len(a["power_items"]) :
          a["power_items"][i].count = 0 /\ a["power_items"][i].where = <<>>

\* C30: the summary of an answer set in which power types are selected (the
\* list of selected types or the list of power items is not empty) and no
\* count and no placement is filled has the line "power needed: yes".
C30_PendingTypesNeedPower ==
    \A u \in Users :
        (sent[u] # <<>> /\ TypesSelectedOnly(fsm_data[u]["draft"]))
            => HasLine(sent[u][1].text, "13) power", DA)

\* the summary of answers with a selected type and the stored type "no"
C30_Reached ==
    \E u \in Users :
        /\ sent[u] # <<>>
        /\ fsm_data[u]["draft"]["power_type"] = NET
        /\ fsm_data[u]["draft"]["power_types"] = <<SURVEY_OPTIONS["power_type"][2]>>
        /\ fsm_data[u]["draft"]["power_items"] = <<>>
        /\ TypesSelectedOnly(fsm_data[u]["draft"])
        /\ HasLine(sent[u][1].text, "13) power", DA)


\* the states a button of the field belongs to
StepsOf(field) ==
    IF field = "power_where" THEN {"Survey:power_where", "EditPower:power_where"}
    ELSE IF field = "confirm" THEN {"Survey:confirm", "EditPower:confirm"}
    ELSE {SURVEY_STATE_OF[field]}

\* the state tag and the data of u and the whole Store are as before
DialogueAndStoreKept(u) ==
    /\ fsm_state'[u] = fsm_state[u]
    /\ fsm_data'[u] = fsm_data[u]
    /\ db_drafts' = db_drafts /\ db_submissions' = db_submissions /\ db_seq' = db_seq
    /\ db_users' = db_users /\ db_docs' = db_docs

\* C22: a press of a choice button that does not belong to the current state
\* of the dialogue (a single-choice button of a field other than the one of
\* the current step, a multi-select button outside its multi-select step, any
\* of them with no dialogue, a download button with an unknown token) changes
\* neither the state tag, nor the draft, nor the Store.
C22_StalePressChangesNothing ==
    [][/\ \A u \in Users :
             /\ \A data \in AnsPressed :
                   (fsm_state[u] \notin StepsOf(cb_field(data)) /\ s_inline(u, data))
                      => DialogueAndStoreKept(u)
             /\ \A data \in PtDataOne :
                   (fsm_state[u] \notin {"Survey:power_type", "EditPower:power_type"}
                      /\ power_types_cb(u, data))
                      => DialogueAndStoreKept(u)
             /\ \A data \in SxData :
                   (fsm_state[u] # "Survey:sfx" /\ sfx_cb(u, data))
                      => DialogueAndStoreKept(u)
       /\ \A u \in Chats :
             (dl_common(u, FALSE, "file") \/ dl_submission_file(u, FALSE, "error"))
                => DialogueAndStoreKept(u)]_vars

\* the scene is answered, the next question is asked, and the button of the
\* scene can still be pressed
C22_Reached ==
    \E u \in Users :
        /\ fsm_state[u] = "Survey:night_mount"
        /\ Answer(u, "scene") # <<>>
        /\ ENABLED s_inline_stale(u, AnsData("scene", 0))

\* the administrator u confirms the deletion of a stored submission
DelConfirmed(u, yd_ok) ==
    /\ is_admin(u)
    /\ fsm_state[u] = "AdminDel:confirm"
    /\ Has(fsm_data[u], "del_sub_id")
    /\ has_submission(db_submissions, fsm_data[u]["del_sub_id"])
    /\ a_del_confirm(u, BTN_DEL_OK, yd_ok)

\* a handler of the deletion dialogue runs for u
DelHandler(u) ==
    \/ a_del_start(u)
    \/ \E text \in IN_month : a_del_pick_month(u, text)
    \/ \E text \in IN_form : a_del_pick_form(u, text)
    \/ \E text \in IN_del, yd_ok \in BOOLEAN : a_del_confirm(u, text, yd_ok)

\* C24: a confirmed deletion removes the submission from the Store whether the
\* deletion of the remote folder returns or fails, and the handlers of the
\* deletion dialogue do nothing for a user who is no administrator.
C24_DeletionSurvivesRemoteFailure ==
    [][\A u \in Chats :
          /\ \A yd_ok \in BOOLEAN :
                DelConfirmed(u, yd_ok)
                   => /\ ~has_submission(db_submissions', fsm_data[u]["del_sub_id"])
                      /\ Len(db_submissions') = Len(db_submissions) - 1
          /\ (~is_admin(u) /\ DelHandler(u))
                => /\ DialogueAndStoreKept(u)
                   /\ sent'[u] = <<>>]_vars

\* the administrator has deleted the only submission
C24_Reached ==
    \E u \in ADMIN_IDS :
        /\ sent[u] = <<Msg(<<"deleted">>, kb_admin_menu)>>
        /\ fsm_state[u] = NoState
        /\ db_seq > 0 /\ db_submissions = <<>>


\* the summary of the answers of u has been sent
Rendered(u) == sent[u] # <<>>
RenderedDraft(u) == fsm_data[u]["draft"]

ConsoleExpected(a) ==
    IF a["operator"] = OPERATOR_M12 THEN DASH
    ELSE IF a["console_help"] = OWN_CONSOLE
         THEN (IF a["console_model"] = <<>> THEN DASH ELSE a["console_model"])
         ELSE IF a["scene"] = BIG_HALL
              THEN <<"GrandMa2 Light">> ELSE <<"Chamsys MQ500">>

DocRendered(u) == Rendered(u) /\ sent[u][1].text[1] = "20 console"
SummaryRendered(u) == Rendered(u) /\ ~DocRendered(u)

\* C32: the console model of the summary (confirm screen and "my answers",
\* both rendered by answers_text) and of the generated document is the
\* placeholder for the institution's operator, else the stored text for an own
\* console, else "GrandMa2 Light" for the big hall and "Chamsys MQ500" for any
\* other scene, whatever the stored console model is in the fixed cases.
C32_ConsoleModelDerived ==
    \A u \in Users :
        /\ SummaryRendered(u) =>
                HasLine(sent[u][1].text, "20) console", ConsoleExpected(RenderedDraft(u)))
        /\ DocRendered(u) =>
                HasLine(sent[u][1].text, "20 console", ConsoleExpected(RenderedDraft(u)))

\* the summary of answers with another operator, no own console, the big hall
\* and a stored model shows the model of the big hall
C32_Reached ==
    \E u \in Users :
        /\ SummaryRendered(u)
        /\ RenderedDraft(u)["operator"] \notin {<<>>, OPERATOR_M12}
        /\ RenderedDraft(u)["console_help"] # OWN_CONSOLE
        /\ RenderedDraft(u)["scene"] = BIG_HALL
        /\ RenderedDraft(u)["console_model"] = <<"Avolites">>
        /\ HasLine(sent[u][1].text, "20) console", <<"GrandMa2 Light">>)

\* C33: rendering the summary leaves the answers it is given as they are: the
\* step that accepts the phone and renders the confirm screen changes the
\* in-flight draft in the phone only, and the special-effects list of the draft
\* is the same before and after the confirm screen is rendered.
C33_RenderLeavesAnswers ==
    [][\A u \in Users :
          (fsm_state[u] = "Survey:phone" /\ s_phone(u)
              /\ fsm_state'[u] = "Survey:confirm")
            => /\ GetList(draft_get(fsm_data'[u]), "sfx_list")
                    = GetList(draft_get(fsm_data[u]), "sfx_list")
               /\ \A k \in DOMAIN draft_get(fsm_data[u]) \ {"phone"} :
                     draft_get(fsm_data'[u])[k] = draft_get(fsm_data[u])[k]]_vars

\* the days of month m of year y in the calendar
CalendarDays(m, y) ==
    IF m \in {1, 3, 5, 7, 8, 10, 12} THEN 31
    ELSE IF m \in {4, 6, 9, 11} THEN 30
    ELSE IF y % 400 = 0 \/ (y % 4 = 0 /\ y % 100 # 0) THEN 29 ELSE 28

\* text, trimmed, is DD.MM.YYYY and names a day of the calendar (whose years
\* start at 1)
CalendarTexts ==
    {DateText(dmy[1], dmy[2], dmy[3]) :
        dmy \in {x \in (1..31) \X (1..12) \X (DateYearNums \ {0}) :
                    x[1] <= CalendarDays(x[2], x[3])}}

NamesCalendarDay(text) == Strip(OrEmpty(text)) \in CalendarTexts

DateStep(u, text) == fsm_state[u] = "Survey:event_date" /\ s_date_text(u, text)

\* C35: the date step accepts a text exactly when it has the shape DD.MM.YYYY
\* and names an existing calendar day; it then stores the text as typed, trimmed,
\* and asks for the title, whatever the year is; every other text leaves the
\* draft and the state alone and gets the format message; "29.02.2021" is
\* rejected and "01.01.2030" is accepted.
C35_DateAcceptedIffCalendarDay ==
    [][\A u \in Users :
          /\ \A text \in DateInputs :
                DateStep(u, text)
                  => IF NamesCalendarDay(text)
                     THEN /\ fsm_state'[u] = "Survey:event_title"
                          /\ GetText(draft_get(fsm_data'[u]), "event_date")
                                = Strip(OrEmpty(text))
                     ELSE /\ fsm_state'[u] = fsm_state[u]
                          /\ fsm_data'[u] = fsm_data[u]
                          /\ sent'[u] = <<E_date>>
          /\ DateStep(u, D_29_02_2021) => fsm_state'[u] = "Survey:event_date"
          /\ DateStep(u, D_01_01_2030) => fsm_state'[u] = "Survey:event_title"]_vars

\* the date of a leap day of a far year was accepted and is stored as typed
C35_Reached ==
    \E u \in Users :
        /\ fsm_state[u] = "Survey:event_title"
        /\ GetText(draft_get(fsm_data[u]), "event_date") = DateText(29, 2, 2024)

PowerLoopStates ==
    {"Survey:power_count", "EditPower:power_count",
     "Survey:power_where", "EditPower:power_where"}

\* C37: in the count and placement states of the power loop, in a survey pass
\* or in an edit, after a resume too, the cursor is an index of the power
\* items; every item before the cursor has a positive count and exactly that
\* many placements; every item after it has the count 0 and no placement; and
\* in the placement state the current item has fewer placements than its count.
C37_PowerCursor ==
    \A u \in Users :
        fsm_state[u] \in PowerLoopStates
          => LET d == draft_get(fsm_data[u])
                 items == GetList(d, "power_items")
                 i == power_i_of(d)
             IN  /\ 0 <= i /\ i < Len(items)
                 /\ \A k \in 1..i :
                       items[k].count > 0 /\ Len(items[k].where) = items[k].count
                 /\ \A k \in (i + 2)..Len(items) :
                       items[k].count = 0 /\ items[k].where = <<>>
                 /\ fsm_state[u] \in {"Survey:power_where", "EditPower:power_where"}
                       => Len(items[i + 1].where) < items[i + 1].count

\* the placement of the second of two types is asked for after the first got
\* its two placements, in a pass resumed from a pause in the placement state
C37_Reached ==
    \E u \in Users :
        /\ fsm_state[u] = "Survey:power_where"
        /\ at_pause[u] # NoPause
        /\ at_pause[u].st = "Survey:power_where"
        /\ LET d == draft_get(fsm_data[u])
           IN  /\ power_i_of(d) = 1
               /\ Len(GetList(d, "power_items")) = 2
               /\ Len(GetList(d, "power_items")[1].where) = 2

\* C38: after commits, edits, uploads and deletions by the administrator, the
\* last pointer of every user that has one names a Submission that is in the
\* store, and the pointer's folder is that Submission's folder.
C38_LastPointerLive ==
    \A i \in 1..Len(db_users) :
        db_users[i].last_submission_id # 0
          => \E j \in 1..Len(db_submissions) :
                /\ db_submissions[j]["id"] = db_users[i].last_submission_id
                /\ db_submissions[j]["ydisk_folder"] = db_users[i].last_folder_path

\* C39: after commits and single-field edits every stored Submission has its
\* dependent fields consistent with the enabling ones: no extra equipment
\* means the placeholder for the plugs, no dimmer the placeholder for the dimmer
\* text, the institution's operator the placeholder for the console help and
\* the console model.
C39_DependentFieldsConsistent ==
    \A j \in 1..Len(db_submissions) :
        LET row == db_submissions[j]
        IN  /\ row["extra_equipment"] = NET => row["plugs"] = DASH
            /\ row["dimmer_needed"] = NET => row["dimmer_text"] = DASH
            /\ row["operator"] = OPERATOR_M12
                  => row["console_help"] = DASH /\ row["console_model"] = DASH

PowerCursor(data) == power_i_of(draft_get(data))
PowerItems(data) == GetList(draft_get(data), "power_items")

\* the steps of the power loop of user u: an accepted count opens the
\* placement of the current item; a placement press adds one placement to the
\* current item and, when the item has as many as its count, moves the cursor
\* by one or leaves the loop after the last item; the cursor never decreases
PowerLoopSteps(u) ==
    LET st == fsm_state[u]
        i == PowerCursor(fsm_data[u])
        items == PowerItems(fsm_data[u])
        i1 == PowerCursor(fsm_data'[u])
        items1 == PowerItems(fsm_data'[u])
        edit == st \in {"EditPower:power_count", "EditPower:power_where"}
        exit == IF edit THEN "EditPower:confirm" ELSE "Survey:dimmer_needed"
        count_st == IF edit THEN "EditPower:power_count" ELSE "Survey:power_count"
        where_st == IF edit THEN "EditPower:power_where" ELSE "Survey:power_where"
    IN  /\ (st \in PowerLoopStates /\ fsm_state'[u] \in PowerLoopStates) => i1 >= i
        /\ CountAccepted(u)
              => /\ fsm_state'[u] = where_st /\ i1 = i
                 /\ items1[i + 1].count > 0 /\ items1[i + 1].where = <<>>
        /\ (st = where_st /\ PlacementPressed(u))
              => /\ Len(items1) = Len(items)
                 /\ Len(items1[i + 1].where) = Len(items[i + 1].where) + 1
                 /\ \A k \in 1..Len(items) :
                       /\ items1[k].count = items[k].count
                       /\ k # i + 1 => items1[k].where = items[k].where
                 /\ IF Len(items1[i + 1].where) < items[i + 1].count
                    THEN fsm_state'[u] = where_st /\ i1 = i
                    ELSE IF i + 1 < Len(items)
                    THEN fsm_state'[u] = count_st /\ i1 = i + 1
                    ELSE fsm_state'[u] = exit

\* C40: once a non-empty selection of power types is finished and the user
\* keeps sending valid counts and placement presses, the power loop ends: the
\* survey reaches the dimmer question and the edit the power confirmation,
\* after one accepted count per type and as many placement presses as each
\* count, the cursor only increasing.
C40_PowerLoopTerminates ==
    /\ \A u \in Users :
          (fsm_state[u] \in {"Survey:power_count", "Survey:power_where"})
              ~> (fsm_state[u] = "Survey:dimmer_needed")
    /\ \A u \in Users :
          (fsm_state[u] \in {"EditPower:power_count", "EditPower:power_where"})
              ~> (fsm_state[u] = "EditPower:confirm")
    /\ [][\A u \in Users : PowerLoopSteps(u)]_vars

\* the edit of the power block reached its confirmation with two items, the
\* second with two placements
C40_Reached ==
    \E u \in Users :
        /\ fsm_state[u] = "EditPower:confirm"
        /\ Len(PowerItems(fsm_data[u])) = 2
        /\ PowerCursor(fsm_data[u]) = 1
        /\ PowerItems(fsm_data[u])[2].count = 2
        /\ Len(PowerItems(fsm_data[u])[2].where) = 2

\* C36: accept presses of the confirm step whose handlers interleave at the
\* awaited folder creation store at most one Submission for the finalized
\* draft: with passes started only while fewer than MaxSubs rows were inserted
\* and no commit is suspended, a user never has more than MaxSubs Submissions.
C36_OneSubmissionPerDraft ==
    \A u \in Users : Len(RowsOf(db_submissions, u)) <= MaxSubs

\* what the store and the dialogue hold for user v
UserSlice(v) ==
    [state |-> fsm_state[v], data |-> fsm_data[v],
     drafts |-> RowsOf(db_drafts, v),
     submissions |-> RowsOf(db_submissions, v),
     last |-> RowsOf(db_users, v)]

\* C34: a survey, pause, resume or edit event of one user leaves the dialogue
\* state, the in-flight draft, the stored Draft, the Submissions and the last
\* pointer of every other user as they are, in every interleaving of the
\* events of two users.
C34_UsersDoNotInterfere ==
    [][\A u \in Chats : \A v \in Chats \ {u} :
          UserEvent(u) => UserSlice(v)' = UserSlice(v)]_vars

\* both users have a Submission of their own, and one of them has edited its
\* organization while the other's is as committed
C34_Reached ==
    \E u \in Chats : \E v \in Chats \ {u} :
        /\ has_last_submission(db_submissions, u)
        /\ get_last_submission_by_user(db_submissions, u)["org"] = <<"New">>
        /\ has_last_submission(db_submissions, v)
        /\ get_last_submission_by_user(db_submissions, v)["org"] # <<"New">>

=============================================================================
